---- MODULE Spec2Model ----
(***************************************************************************)
(* Model of the readwise-reader recommendation pipeline: the Response      *)
(* Matcher (title-quoted, title-line and url modes), URL cleanup and the   *)
(* Capacity Estimator.  Strings are sequences of one-character strings, so *)
(* that splitting, trimming, lower-casing, regular-expression scanning and *)
(* URL parsing are computed as the code computes them.                     *)
(***************************************************************************)
EXTENDS Integers, Sequences, FiniteSets, TLC

VARIABLES
    aiResponse,     \* the response text handed to the matcher (a sequence of characters)
    tldrArticles,   \* the candidate articles: a sequence of [title, url]
    mode,           \* "none" before the matcher ran, else "quoted" | "line" | "url"
    outcome,        \* what the matcher did: [kind, urls, unmatched]
    cleanInput,     \* the string handed to cleanAndValidateURL
    paramCount,     \* how many query parameters were appended to cleanInput
    cleanOutput,    \* [done, url]: the string cleanAndValidateURL returned
    wordCount,      \* how many words the url-mode response text holds
    fetchWindow,    \* [amount, unit] of the getWellReadDocuments call, or NoWindow
    wellReadCount,  \* wellReadDocs.length, or -1 before the fetch
    analysis,       \* the result of readingAnalysis, or NoAnalysis
    listCalls,      \* the list calls issued so far: [location, pageCursor] each
    listAnswers,    \* the answers of the service to the list calls, in order
    allDocuments,   \* the documents getWellReadDocuments accumulated
    nextPageCursor, \* the cursor of the last response, or NoCursor
    fetchResult,    \* what getWellReadDocuments did: [kind, docs, error]
    recommendedUrls,    \* the URLs handed to createDocumentsFromRecommendations
    rateLimitMs,        \* the delay between two creation requests, in ms
    index,              \* the 0-based index of the URL the importer is at
    importPc,           \* "idle" | "awaiting" (a creation request) | "delay" | "done"
    successCount,
    failCount,
    createdDocuments,   \* the documents the service created, in creation order
    createRequests,     \* the parameters of the creation requests issued so far
    importTrace,        \* the creations and suspensions of the importer, in order
    command,        \* the subcommand of the run, or "none"
    token,          \* config.READWISE_READER_KEY
    runPc,          \* the position of the run
    finalUrls,      \* the URL list after the human review
    debugFile,      \* [written, content]: the debug file of the AI response
    runError,       \* the error the run ended with, or NoError
    saveConfirmation,   \* [asked, answer]: the answer to the final save question
    removeIndexes,  \* the answer typed at the removal question
    edit,           \* the last line typed at the modification prompt
    paragraphs,     \* the p elements of the document handed to parseTLDRLinks
    links           \* [done, articles]: what parseTLDRLinks returned

vars == <<aiResponse, tldrArticles, mode, outcome, cleanInput, paramCount,
          cleanOutput, wordCount, fetchWindow, wellReadCount, analysis,
          listCalls, listAnswers, allDocuments, nextPageCursor, fetchResult,
          recommendedUrls, rateLimitMs, index, importPc, successCount, failCount,
          createdDocuments, createRequests, importTrace,
          command, token, runPc, finalUrls, debugFile, runError, saveConfirmation,
          removeIndexes, edit, paragraphs, links>>

matcherVars == <<aiResponse, tldrArticles, mode, outcome, wordCount>>
cleanVars == <<cleanInput, paramCount, cleanOutput>>
capacityVars == <<fetchWindow, wellReadCount, analysis>>
historyVars == <<listCalls, listAnswers, allDocuments, nextPageCursor, fetchResult>>
importVars == <<recommendedUrls, rateLimitMs, index, importPc, successCount, failCount,
                createdDocuments, createRequests, importTrace>>
runVars == <<command, token, runPc, finalUrls, debugFile, runError, saveConfirmation,
             removeIndexes, edit>>
extractVars == <<paragraphs, links>>
serviceVars == <<historyVars, importVars, runVars, extractVars>>

----------------------------------------------------------------------------
(* Bounds of the model *)

MaxLen == 4          \* characters typed into the response text (title modes)
MaxCands == 2        \* candidate articles of a run
MaxPieces == 3       \* words of a response made of whole words (all modes)
MaxWords == 3        \* words of a url-mode response
MaxParams == 3       \* query parameters of a URL handed to cleanup
MaxWellRead == 80    \* documents the history fetch returns

----------------------------------------------------------------------------
(* Characters and the string primitives of the JavaScript runtime *)

UpperCase == <<"A","B","C","D","E","F","G","H","I","J","K","L","M",
               "N","O","P","Q","R","S","T","U","V","W","X","Y","Z">>
LowerCase == <<"a","b","c","d","e","f","g","h","i","j","k","l","m",
               "n","o","p","q","r","s","t","u","v","w","x","y","z">>
Digits == {"0","1","2","3","4","5","6","7","8","9"}

Range(s) == {s[i] : i \in DOMAIN s}

Letters == Range(UpperCase) \cup Range(LowerCase)

\* String.prototype.toLowerCase, one character
ToLowerChar(c) ==
    IF c \in Range(UpperCase)
    THEN LowerCase[CHOOSE i \in DOMAIN UpperCase : UpperCase[i] = c]
    ELSE c

ToLower(s) == [i \in DOMAIN s |-> ToLowerChar(s[i])]

\* the regular-expression class \w: [A-Za-z0-9_]
IsWordChar(c) == c \in Letters \cup Digits \cup {"_"}

\* the regular-expression class \s, and the characters String.prototype.trim strips
IsSpaceChar(c) == c \in {" ", "\n", "\t", "\r"}

\* String.prototype.trim
Trim(s) ==
    LET keep == {i \in DOMAIN s : ~IsSpaceChar(s[i])}
    IN IF keep = {} THEN <<>>
       ELSE LET lo == CHOOSE i \in keep : \A j \in keep : i <= j
                hi == CHOOSE i \in keep : \A j \in keep : j <= i
            IN SubSeq(s, lo, hi)

\* the smallest index >= from at which s holds c, or Len(s) + 1
IndexFrom(s, c, from) ==
    LET hits == {i \in from..Len(s) : s[i] = c}
    IN IF hits = {} THEN Len(s) + 1
       ELSE CHOOSE i \in hits : \A j \in hits : i <= j

\* String.prototype.split on a one-character separator
RECURSIVE SplitFrom(_, _, _)
SplitFrom(s, sep, from) ==
    LET j == IndexFrom(s, sep, from)
    IN IF j > Len(s) THEN <<SubSeq(s, from, Len(s))>>
       ELSE <<SubSeq(s, from, j - 1)>> \o SplitFrom(s, sep, j + 1)

Split(s, sep) == SplitFrom(s, sep, 1)

\* whether s holds p at index i
HasAt(s, i, p) == i >= 1 /\ i + Len(p) - 1 <= Len(s) /\ SubSeq(s, i, i + Len(p) - 1) = p

\* String.prototype.startsWith
StartsWith(s, p) == HasAt(s, 1, p)

\* String.prototype.includes, for a one-character needle
IncludesChar(s, c) == \E i \in DOMAIN s : s[i] = c

\* Array.prototype.join
RECURSIVE Join(_, _)
Join(parts, sep) ==
    IF parts = <<>> THEN <<>>
    ELSE IF Len(parts) = 1 THEN parts[1]
    ELSE parts[1] \o sep \o Join(Tail(parts), sep)

----------------------------------------------------------------------------
(* The Response Matcher, title modes *)

Null == <<"null">>      \* the null a resolver returns for an unresolved title

\* the titles a quoted-mode response holds: the global regular expression
\* "([^"]+)" applied with exec until it finds nothing more
RECURSIVE QuotedFrom(_, _)
QuotedFrom(s, i) ==
    IF i > Len(s) THEN <<>>
    ELSE IF s[i] # "\"" THEN QuotedFrom(s, i + 1)
    ELSE LET j == IndexFrom(s, "\"", i + 1)
         IN IF j <= Len(s) /\ j > i + 1
            THEN <<SubSeq(s, i + 1, j - 1)>> \o QuotedFrom(s, j + 1)
            ELSE QuotedFrom(s, i + 1)

ExtractQuoted(s) == QuotedFrom(s, 1)

\* the titles a line-mode response holds: every trimmed non-empty line
ExtractLines(s) ==
    LET lines == Split(s, "\n")
        trimmed == [i \in DOMAIN lines |-> Trim(lines[i])]
    IN SelectSeq(trimmed, LAMBDA l : l # <<>>)

\* a set that keeps the value a key already has
MapSetKeepFirst(m, k, v) ==
    IF \E i \in DOMAIN m : m[i].title = k THEN m
    ELSE Append(m, [title |-> k, url |-> v])

\* Map.prototype.set on a Map kept as its entries in insertion order
MapSet(m, k, v) ==
    IF \E i \in DOMAIN m : m[i].title = k
    THEN [i \in DOMAIN m |-> IF m[i].title = k THEN [title |-> k, url |-> v] ELSE m[i]]
    ELSE Append(m, [title |-> k, url |-> v])

RECURSIVE MapOfPrefix(_, _)
MapOfPrefix(articles, n) ==
    IF n = 0 THEN <<>>
    ELSE MapSet(MapOfPrefix(articles, n - 1), articles[n].title, articles[n].url)

\* titleToUrlMap: the articles' titles set one after the other
TitleToUrlMap(articles) == MapOfPrefix(articles, Len(articles))

MapHas(m, k) == \E i \in DOMAIN m : m[i].title = k

\* a lookup that hands back the key it was asked for
MapGetKey(m, k) == m[CHOOSE i \in DOMAIN m : m[i].title = k].title

MapGet(m, k) == m[CHOOSE i \in DOMAIN m : m[i].title = k].url

\* normalize of the quoted mode: lower-case, then delete everything outside \w
Normalize(s) == SelectSeq(ToLower(s), IsWordChar)

\* a comparison that lower-cases the candidate's title only
CaseInsensitiveEqOneSided(a, b) == ToLower(a) = b

CaseInsensitiveEq(a, b) == ToLower(a) = ToLower(b)
NormalizedEq(a, b) == Normalize(a) = Normalize(b)

\* the url of the last entry of m, in insertion order, among the entries hits
LastOfHits(m, hits) ==
    IF hits = {} THEN Null
    ELSE m[CHOOSE i \in hits : \A j \in hits : j <= i].url

\* the url of the first entry of m, in insertion order, among the entries hits
FirstOf(m, hits) ==
    IF hits = {} THEN Null
    ELSE m[CHOOSE i \in hits : \A j \in hits : i <= j].url

\* the loop over titleToUrlMap.entries() of the case-insensitive tier
FirstCaseInsensitive(m, title) ==
    FirstOf(m, {i \in DOMAIN m : CaseInsensitiveEq(m[i].title, title)})

\* the loop over titleToUrlMap.entries() of the normalized tier
FirstNormalized(m, title) ==
    FirstOf(m, {i \in DOMAIN m : NormalizedEq(m[i].title, title)})

\* the resolver of the quoted mode: exact, case-insensitive, then normalized
ResolveQuoted(m, title) ==
    IF MapHas(m, title) THEN MapGet(m, title)
    ELSE LET ci == FirstCaseInsensitive(m, title)
         IN IF ci # Null THEN ci
            ELSE FirstNormalized(m, title)

\* a line-mode resolver that falls back to the normalized tier
ResolveLineWithNormalized(m, title) ==
    IF MapHas(m, title) THEN MapGet(m, title)
    ELSE LET ci == FirstCaseInsensitive(m, title)
         IN IF ci # Null THEN ci
            ELSE FirstNormalized(m, title)

\* the resolver of the line mode: exact, then case-insensitive
ResolveLine(m, title) ==
    IF MapHas(m, title) THEN MapGet(m, title)
    ELSE FirstCaseInsensitive(m, title)

\* the recomputation of the line mode copied into the quoted mode: the
\* normalized comparison is missing
UnmatchedQuotedNoNormalize(m, title) ==
    /\ ~MapHas(m, title)
    /\ ~\E i \in DOMAIN m : ToLower(m[i].title) = ToLower(title)

\* the filter that recomputes the unmatched titles for the error message
UnmatchedQuoted(m, title) ==
    /\ ~MapHas(m, title)
    /\ ~\E i \in DOMAIN m :
          \/ ToLower(m[i].title) = ToLower(title)
          \/ Normalize(m[i].title) = Normalize(title)

UnmatchedLine(m, title) ==
    /\ ~MapHas(m, title)
    /\ ~\E i \in DOMAIN m : ToLower(m[i].title) = ToLower(title)

\* a completeness test that raises only when no title at all got a URL
AllMatchedSome(matchedUrls, matches) == Len(matchedUrls) > 0 \/ Len(matches) = 0

\* the completeness test: every extracted title got a URL
AllMatched(matchedUrls, matches) == Len(matchedUrls) = Len(matches)

NoOutcome == [kind |-> "none", urls |-> <<>>, unmatched |-> <<>>]

\* extractTitlesAndMatchURLs, quoted mode
MatchQuoted(text, articles) ==
    LET matches == ExtractQuoted(text)
        m == TitleToUrlMap(articles)
        resolved == [i \in DOMAIN matches |-> ResolveQuoted(m, matches[i])]
        matchedUrls == SelectSeq(resolved, LAMBDA u : u # Null)
    IN IF ~AllMatched(matchedUrls, matches)
       THEN [kind |-> "throw", urls |-> <<>>,
             unmatched |-> SelectSeq(matches, LAMBDA t : UnmatchedQuoted(m, t))]
       ELSE [kind |-> "return", urls |-> matchedUrls, unmatched |-> <<>>]

\* a line mode that returns every matched URL once
MatchLineOncePerUrl(text, articles) ==
    LET matches == ExtractLines(text)
        m == TitleToUrlMap(articles)
        resolved == [i \in DOMAIN matches |-> ResolveLine(m, matches[i])]
        matchedUrls == SelectSeq(resolved, LAMBDA u : u # Null)
        firsts == {i \in DOMAIN matchedUrls :
                      \A k \in 1..(i - 1) : matchedUrls[k] # matchedUrls[i]}
        Nth(n) == CHOOSE i \in firsts : Cardinality({k \in firsts : k < i}) = n - 1
    IN IF ~AllMatched(matchedUrls, matches)
       THEN [kind |-> "throw", urls |-> <<>>,
             unmatched |-> SelectSeq(matches, LAMBDA t : UnmatchedLine(m, t))]
       ELSE [kind |-> "return",
             urls |-> [n \in 1..Cardinality(firsts) |-> matchedUrls[Nth(n)]],
             unmatched |-> <<>>]

\* extractTitlesAndMatchURLs, line mode
MatchLine(text, articles) ==
    LET matches == ExtractLines(text)
        m == TitleToUrlMap(articles)
        resolved == [i \in DOMAIN matches |-> ResolveLine(m, matches[i])]
        matchedUrls == SelectSeq(resolved, LAMBDA u : u # Null)
    IN IF ~AllMatched(matchedUrls, matches)
       THEN [kind |-> "throw", urls |-> <<>>,
             unmatched |-> SelectSeq(matches, LAMBDA t : UnmatchedLine(m, t))]
       ELSE [kind |-> "return", urls |-> matchedUrls, unmatched |-> <<>>]

----------------------------------------------------------------------------
(* URL parsing and serializing as the runtime's URL and URLSearchParams do  *)
(* them, for the strings the url mode hands over: http:// or https://       *)
(* followed by characters that are no white space.  The inputs of the model *)
(* hold no userinfo, no IP literal, no dot segment and no byte outside      *)
(* printable ASCII.                                                         *)

\* the printable ASCII characters in code order, from 0x20 (the grave accent,
\* 0x60, is spelled out: it occurs in no input)
AsciiPrintable ==
    <<" ", "!", "\"", "#", "$", "%", "&", "'", "(", ")", "*", "+", ",", "-", ".", "/",
      "0", "1", "2", "3", "4", "5", "6", "7", "8", "9", ":", ";", "<", "=", ">", "?",
      "@", "A", "B", "C", "D", "E", "F", "G", "H", "I", "J", "K", "L", "M", "N", "O",
      "P", "Q", "R", "S", "T", "U", "V", "W", "X", "Y", "Z", "[", "\\", "]", "^", "_",
      "grave", "a", "b", "c", "d", "e", "f", "g", "h", "i", "j", "k", "l", "m", "n", "o",
      "p", "q", "r", "s", "t", "u", "v", "w", "x", "y", "z", "{", "|", "}", "~">>

HexDigits == <<"0","1","2","3","4","5","6","7","8","9","A","B","C","D","E","F">>

CharCode(c) == 31 + CHOOSE i \in DOMAIN AsciiPrintable : AsciiPrintable[i] = c

IsHexDigit(c) == \E i \in DOMAIN HexDigits : HexDigits[i] = c \/ ToLowerChar(HexDigits[i]) = c

HexValue(c) ==
    (CHOOSE i \in DOMAIN HexDigits : HexDigits[i] = c \/ ToLowerChar(HexDigits[i]) = c) - 1

\* %XX of one character
PercentEncodeChar(c) ==
    <<"%", HexDigits[(CharCode(c) \div 16) + 1], HexDigits[(CharCode(c) % 16) + 1]>>

\* percent-decode: every %XX that names a printable ASCII character
RECURSIVE PercentDecodeFrom(_, _)
PercentDecodeFrom(s, i) ==
    IF i > Len(s) THEN <<>>
    ELSE IF /\ s[i] = "%"
            /\ i + 2 <= Len(s)
            /\ IsHexDigit(s[i + 1])
            /\ IsHexDigit(s[i + 2])
            /\ (HexValue(s[i + 1]) * 16 + HexValue(s[i + 2]) - 31)
                   \in DOMAIN AsciiPrintable
         THEN <<AsciiPrintable[HexValue(s[i + 1]) * 16 + HexValue(s[i + 2])
                               - 31]>>
              \o PercentDecodeFrom(s, i + 3)
         ELSE <<s[i]>> \o PercentDecodeFrom(s, i + 1)

\* application/x-www-form-urlencoded decoding of a name or value
FormDecode(s) == PercentDecodeFrom([i \in DOMAIN s |-> IF s[i] = "+" THEN " " ELSE s[i]], 1)

\* application/x-www-form-urlencoded encoding of a name or value
RECURSIVE FormEncode(_)
FormEncode(s) ==
    IF s = <<>> THEN <<>>
    ELSE (IF Head(s) \in Letters \cup Digits \cup {"*", "-", ".", "_"} THEN <<Head(s)>>
          ELSE IF Head(s) = " " THEN <<"+">>
          ELSE PercentEncodeChar(Head(s)))
         \o FormEncode(Tail(s))

\* the query state of the URL parser: the special-query percent-encode set
RECURSIVE QueryEncode(_)
QueryEncode(s) ==
    IF s = <<>> THEN <<>>
    ELSE (IF Head(s) \in {" ", "\"", "#", "<", ">", "'"} THEN PercentEncodeChar(Head(s))
          ELSE <<Head(s)>>)
         \o QueryEncode(Tail(s))

\* new URLSearchParams(search): the name-value pairs in order
ParseParams(search) ==
    LET query == IF search # <<>> /\ search[1] = "?" THEN Tail(search) ELSE search
        pieces == SelectSeq(Split(query, "&"), LAMBDA piece : piece # <<>>)
        Pair(piece) ==
            LET j == IndexFrom(piece, "=", 1)
            IN [key |-> FormDecode(SubSeq(piece, 1, j - 1)),
                value |-> FormDecode(SubSeq(piece, j + 1, Len(piece)))]
    IN [i \in DOMAIN pieces |-> Pair(pieces[i])]

\* URLSearchParams.prototype.toString
SerializeParams(params) ==
    Join([i \in DOMAIN params |->
             FormEncode(params[i].key) \o <<"=">> \o FormEncode(params[i].value)],
         <<"&">>)

ParseFailure ==
    [ok |-> FALSE, scheme |-> <<>>, host |-> <<>>, port |-> <<>>, path |-> <<>>,
     hasQuery |-> FALSE, query |-> <<>>, hasFragment |-> FALSE, fragment |-> <<>>]

\* the smallest index >= from at which s holds a character of cs, or Len(s) + 1
IndexOfAny(s, cs, from) ==
    LET hits == {i \in from..Len(s) : s[i] \in cs}
    IN IF hits = {} THEN Len(s) + 1
       ELSE CHOOSE i \in hits : \A j \in hits : i <= j

\* the code points a host may not hold
ForbiddenHostChars ==
    {" ", "#", "/", ":", "<", ">", "?", "@", "[", "\\", "]", "^", "|", "%"}

RECURSIVE DecimalValue(_)
DecimalValue(ds) ==
    IF ds = <<>> THEN 0
    ELSE DecimalValue(SubSeq(ds, 1, Len(ds) - 1)) * 10
         + (CHOOSE d \in 0..9 : AsciiPrintable[17 + d] = ds[Len(ds)])

RECURSIVE DecimalDigits(_)
DecimalDigits(n) ==
    IF n < 10 THEN <<AsciiPrintable[17 + n]>>
    ELSE DecimalDigits(n \div 10) \o <<AsciiPrintable[17 + (n % 10)]>>

DefaultPort(scheme) == IF scheme = <<"h","t","t","p">> THEN 80 ELSE 443

\* new URL(url) for a string that starts with http:// or https://
ParseURL(url) ==
    LET colon == IndexFrom(url, ":", 1)
        scheme == ToLower(SubSeq(url, 1, colon - 1))
        \* the slashes after the scheme are skipped, however many
        start == CHOOSE i \in (colon + 1)..(Len(url) + 1) :
                    /\ \A j \in (colon + 1)..(i - 1) : url[j] \in {"/", "\\"}
                    /\ i <= Len(url) => url[i] \notin {"/", "\\"}
        authEnd == IndexOfAny(url, {"/", "\\", "?", "#"}, start)
        authority == SubSeq(url, start, authEnd - 1)
        portColon == IndexFrom(authority, ":", 1)
        host == ToLower(SubSeq(authority, 1, portColon - 1))
        portText == SubSeq(authority, portColon + 1, Len(authority))
        portOk == /\ \A i \in DOMAIN portText : portText[i] \in Digits
                  /\ Len(portText) <= 9
                  /\ DecimalValue(portText) <= 65535
        pathEnd == IndexOfAny(url, {"?", "#"}, authEnd)
        rawPath == SubSeq(url, authEnd, pathEnd - 1)
        hashAt == IndexFrom(url, "#", pathEnd)
        hasQuery == pathEnd <= Len(url) /\ url[pathEnd] = "?"
    IN IF \/ colon > Len(url)
          \/ scheme \notin {<<"h","t","t","p">>, <<"h","t","t","p","s">>}
          \/ host = <<>>
          \/ \E i \in DOMAIN host : host[i] \in ForbiddenHostChars
          \/ ~portOk
       THEN ParseFailure
       ELSE [ok |-> TRUE,
             scheme |-> scheme,
             host |-> host,
             port |-> IF portText = <<>> \/ DecimalValue(portText) = DefaultPort(scheme)
                      THEN <<>> ELSE DecimalDigits(DecimalValue(portText)),
             path |-> IF rawPath = <<>> THEN <<"/">> ELSE rawPath,
             hasQuery |-> hasQuery,
             query |-> IF hasQuery THEN QueryEncode(SubSeq(url, pathEnd + 1, hashAt - 1))
                       ELSE <<>>,
             hasFragment |-> hashAt <= Len(url),
             fragment |-> SubSeq(url, hashAt + 1, Len(url))]

\* URL.prototype.search: "?" and the query, or the empty string
SearchOf(u) == IF u.hasQuery /\ u.query # <<>> THEN <<"?">> \o u.query ELSE <<>>

\* the setter of URL.prototype.search
SetSearch(u, search) ==
    IF search = <<>> THEN [u EXCEPT !.hasQuery = FALSE, !.query = <<>>]
    ELSE [u EXCEPT !.hasQuery = TRUE,
                   !.query = QueryEncode(IF search[1] = "?" THEN Tail(search) ELSE search)]

\* URL.prototype.toString
SerializeURL(u) ==
    u.scheme \o <<":", "/", "/">> \o u.host
    \o (IF u.port = <<>> THEN <<>> ELSE <<":">> \o u.port)
    \o u.path
    \o (IF u.hasQuery THEN <<"?">> \o u.query ELSE <<>>)
    \o (IF u.hasFragment THEN <<"#">> \o u.fragment ELSE <<>>)

----------------------------------------------------------------------------
(* URL cleanup: cleanAndValidateURL *)

\* the deny-list of tracking parameters
trackingParams ==
    << <<"u","t","m","_">>,
       <<"r","e","f">>,
       <<"f","b","c","l","i","d">>,
       <<"g","c","l","i","d">>,
       <<"o","c","i","d">>,
       <<"m","c","_","c","i","d">>,
       <<"m","c","_","e","i","d">>,
       <<"y","c","l","i","d">>,
       <<"z","a","n","p","i","d">>,
       <<"_","h","s","e","n","c">>,
       <<"_","h","s","m","i">>,
       <<"i","g","s","h","i","d">>,
       <<"m","k","t","_","t","o","k">> >>

\* a test that removes exact keys only
IsTrackingKeyExact(key, param) == key = param

\* the test of one key against one deny-list entry
IsTrackingKey(key, param) == key = param \/ StartsWith(key, param)

\* the parameters left after the passes for the first n deny-list entries:
\* a pass deletes every parameter whose key the entry matches
RECURSIVE RemoveTracking(_, _)
RemoveTracking(params, n) ==
    IF n = 0 THEN params
    ELSE SelectSeq(RemoveTracking(params, n - 1),
                   LAMBDA p : ~IsTrackingKey(p.key, trackingParams[n]))

shortenerDomains ==
    << <<"b","i","t",".","l","y">>,
       <<"t","i","n","y","u","r","l",".","c","o","m">>,
       <<"g","o","o",".","g","l">>,
       <<"o","w",".","l","y">>,
       <<"i","s",".","g","d">>,
       <<"t",".","c","o">>,
       <<"l","n","k","d",".","i","n">>,
       <<"d","l","v","r",".","i","t">>,
       <<"b","u","f","f",".","l","y">> >>

\* String.prototype.includes
Includes(s, sub) == \E i \in 1..(Len(s) - Len(sub) + 1) : HasAt(s, i, sub)

\* whether cleanup logs the warning about a shortened URL
IsShortener(url) ==
    LET u == ParseURL(url)
    IN u.ok /\ \E d \in DOMAIN shortenerDomains : Includes(u.host, shortenerDomains[d])

cleanAndValidateURL(url) ==
    LET parsedUrl == ParseURL(url)
    IN IF ~parsedUrl.ok THEN url
       ELSE IF SearchOf(parsedUrl) = <<>> THEN SerializeURL(parsedUrl)
       ELSE LET searchParams == ParseParams(SearchOf(parsedUrl))
                kept == RemoveTracking(searchParams, Len(trackingParams))
                modified == kept # searchParams
                newSearch == SerializeParams(kept)
            IN IF modified
               THEN SerializeURL(SetSearch(parsedUrl,
                        IF newSearch # <<>> THEN <<"?">> \o newSearch ELSE <<>>))
               ELSE SerializeURL(parsedUrl)

----------------------------------------------------------------------------
(* The Response Matcher, url mode: extractURLsFromResponse *)

\* the length of http:// or https:// where s holds one of them at i, else 0
SchemeLenAt(s, i) ==
    IF HasAt(s, i, <<"h","t","t","p","s",":","/","/">>) THEN 8
    ELSE IF HasAt(s, i, <<"h","t","t","p",":","/","/">>) THEN 7
    ELSE 0

\* aiResponse.match(urlRegex): the global matches of https?://[^\s]+
RECURSIVE UrlMatchesFrom(_, _)
UrlMatchesFrom(s, i) ==
    IF i > Len(s) THEN <<>>
    ELSE LET n == SchemeLenAt(s, i)
             e == IndexOfAny(s, {" ", "\n", "\t", "\r"}, i + n)
         IN IF n > 0 /\ e > i + n
            THEN <<SubSeq(s, i, e - 1)>> \o UrlMatchesFrom(s, e)
            ELSE UrlMatchesFrom(s, i + 1)

\* url.replace of the trailing run of . , ; : ) " ' ] }
RECURSIVE StripTrailing(_)
StripTrailing(s) ==
    IF s # <<>> /\ s[Len(s)] \in {".", ",", ";", ":", ")", "\"", "'", "]", "}"}
    THEN StripTrailing(SubSeq(s, 1, Len(s) - 1))
    ELSE s

\* where the tail ](https?://[^)]+) of the markdown pattern matches at j
MarkdownTailAt(s, j) ==
    /\ j + 1 <= Len(s)
    /\ s[j] = "]"
    /\ s[j + 1] = "("
    /\ SchemeLenAt(s, j + 2) > 0
    /\ LET k == j + 2 + SchemeLenAt(s, j + 2)
           e == IndexFrom(s, ")", k)
       IN e <= Len(s) /\ e > k

\* the inner URL of [text](url) where the markdown pattern matches, else s
MarkdownInner(s) ==
    LET opens == {i \in DOMAIN s :
                     s[i] = "[" /\ \E j \in (i + 1)..Len(s) : MarkdownTailAt(s, j)}
    IN IF opens = {} THEN s
       ELSE LET i == CHOOSE x \in opens : \A y \in opens : x <= y
                tails == {j \in (i + 1)..Len(s) : MarkdownTailAt(s, j)}
                j == CHOOSE x \in tails : \A y \in tails : y <= x
            IN SubSeq(s, j + 2, IndexFrom(s, ")", j + 2 + SchemeLenAt(s, j + 2)) - 1)

\* a validity filter that drops the URLs of link shorteners
LooksLikeUrlNoShortener(url) ==
    StartsWith(url, <<"h","t","t","p">>) /\ IncludesChar(url, ".") /\ ~IsShortener(url)

\* the validity filter: url.startsWith("http") && url.includes(".")
LooksLikeUrl(url) == StartsWith(url, <<"h","t","t","p">>) /\ IncludesChar(url, ".")

\* cleanedUrls: every match stripped, unwrapped and cleaned, the invalid dropped
CleanedUrls(text) ==
    LET matches == UrlMatchesFrom(text, 1)
        cleaned == [i \in DOMAIN matches |->
                       cleanAndValidateURL(MarkdownInner(StripTrailing(matches[i])))]
    IN SelectSeq(cleaned, LooksLikeUrl)

\* a deduplication that keeps the last occurrence of every element
UniqueKeepLast(urls) ==
    LET lasts == {i \in DOMAIN urls : \A j \in (i + 1)..Len(urls) : urls[j] # urls[i]}
        Nth(n) == CHOOSE i \in lasts : Cardinality({j \in lasts : j < i}) = n - 1
    IN [n \in 1..Cardinality(lasts) |-> urls[Nth(n)]]

\* [...new Set(urls)]: the first occurrence of every element, in order
Unique(urls) ==
    LET firsts == {i \in DOMAIN urls : \A j \in 1..(i - 1) : urls[j] # urls[i]}
        Nth(n) == CHOOSE i \in firsts : Cardinality({j \in firsts : j < i}) = n - 1
    IN [n \in 1..Cardinality(firsts) |-> urls[Nth(n)]]

extractURLsFromResponse(text) == Unique(CleanedUrls(text))

----------------------------------------------------------------------------
(* The inputs of a matcher run *)

\* the characters a response text is typed from: a letter in both cases, the
\* blank, the line break and the double quote
Alphabet == {"a", "A", " ", "\n", "\""}

\* the titles parseTLDRLinks hands over: the trimmed text of the emphasized
\* title, possibly equal to another title, exactly or up to case
TitlePool == {<<"a">>, <<"A">>, <<"a", " ", "a">>}

DigitOf == <<"1","2","3","4","5","6","7","8","9">>

\* the href of the i-th candidate article: https://e.co/<i>
CandUrl(i) == <<"h","t","t","p","s",":","/","/","e",".","c","o","/">> \o <<DigitOf[i]>>

TitleLists == UNION {[1..n -> TitlePool] : n \in 0..MaxCands}

\* allTLDRArticles: the i-th candidate has the i-th title and the i-th url
ArticlesOf(titles) == [i \in DOMAIN titles |-> [title |-> titles[i], url |-> CandUrl(i)]]

CandidateLists == {ArticlesOf(ts) : ts \in TitleLists}

NoClean == [done |-> FALSE, url |-> <<>>]
NoWindow == [amount |-> 0, unit |-> "none"]
NoAnalysis == [done |-> FALSE]

CleanIdle == cleanInput = <<>> /\ paramCount = 0 /\ cleanOutput = NoClean
CapacityIdle == fetchWindow = NoWindow /\ wellReadCount = -1 /\ analysis = NoAnalysis

\* undefined, for a cursor, an option or the credential
Undefined == "undefined"
NoCursor == Undefined
NoFetch == [kind |-> "none", docs |-> <<>>, error |-> "none"]
NoDebugFile == [written |-> FALSE, content |-> <<>>]
NoError == "none"

HistoryIdle ==
    /\ listCalls = <<>>
    /\ listAnswers = <<>>
    /\ allDocuments = <<>>
    /\ nextPageCursor = NoCursor
    /\ fetchResult = NoFetch

ImportIdle ==
    /\ recommendedUrls = <<>>
    /\ rateLimitMs = 0
    /\ index = 0
    /\ importPc = "idle"
    /\ successCount = 0
    /\ failCount = 0
    /\ createdDocuments = <<>>
    /\ createRequests = <<>>
    /\ importTrace = <<>>

NoAnswer == [asked |-> FALSE, answer |-> <<>>]

RunIdle ==
    /\ command = "none"
    /\ token = Undefined
    /\ runPc = "none"
    /\ finalUrls = <<>>
    /\ debugFile = NoDebugFile
    /\ runError = NoError
    /\ saveConfirmation = NoAnswer
    /\ removeIndexes = <<>>
    /\ edit = <<>>

NoLinks == [done |-> FALSE, articles |-> <<>>]

ExtractIdle == paragraphs = <<>> /\ links = NoLinks

ServiceIdle == HistoryIdle /\ ImportIdle /\ RunIdle /\ ExtractIdle

----------------------------------------------------------------------------
(* The matcher in its title modes: a response is typed, then matched *)

InitTitle ==
    /\ aiResponse = <<>>
    /\ tldrArticles \in CandidateLists
    /\ mode = "none"
    /\ outcome = NoOutcome
    /\ wordCount = 0
    /\ CleanIdle
    /\ CapacityIdle
    /\ ServiceIdle

\* one more character of the pasted response
TypeChar ==
    /\ mode = "none"
    /\ Len(aiResponse) < MaxLen
    /\ \E c \in Alphabet : aiResponse' = Append(aiResponse, c)
    /\ UNCHANGED <<tldrArticles, mode, outcome, wordCount, cleanVars, capacityVars, serviceVars>>

RunMatchQuoted ==
    /\ mode = "none"
    /\ mode' = "quoted"
    /\ outcome' = MatchQuoted(aiResponse, tldrArticles)
    /\ UNCHANGED <<aiResponse, tldrArticles, wordCount, cleanVars, capacityVars, serviceVars>>

RunMatchLine ==
    /\ mode = "none"
    /\ mode' = "line"
    /\ outcome' = MatchLine(aiResponse, tldrArticles)
    /\ UNCHANGED <<aiResponse, tldrArticles, wordCount, cleanVars, capacityVars, serviceVars>>

NextTitle == TypeChar \/ RunMatchQuoted \/ RunMatchLine

SpecTitle == InitTitle /\ [][NextTitle]_vars

----------------------------------------------------------------------------
(* All three modes of the matcher on responses made of whole words *)

\* the words of a response: quoted titles (one with an underscore, a \w
\* character that is no letter or digit, and one with a blank), a bare title,
\* a line break, the url of the first candidate and a url no candidate has
ModePieces ==
    { <<"\"", "a", "\"">>,
      <<"\"", "a", "_", "\"">>,
      <<"\"", "a", " ", "\"">>,
      <<"a">>,
      <<"\n">>,
      CandUrl(1),
      <<"h","t","t","p","s",":","/","/","x",".","c","o","/","9">> }

InitModes ==
    /\ aiResponse = <<>>
    /\ tldrArticles \in CandidateLists
    /\ mode = "none"
    /\ outcome = NoOutcome
    /\ wordCount = 0
    /\ CleanIdle
    /\ CapacityIdle
    /\ ServiceIdle

AppendPiece ==
    /\ mode = "none"
    /\ wordCount < MaxPieces
    /\ \E w \in ModePieces : aiResponse' = aiResponse \o w
    /\ wordCount' = wordCount + 1
    /\ UNCHANGED <<tldrArticles, mode, outcome, cleanVars, capacityVars, serviceVars>>

RunExtractURLs ==
    /\ mode = "none"
    /\ mode' = "url"
    /\ outcome' = [kind |-> "return", urls |-> extractURLsFromResponse(aiResponse),
                   unmatched |-> <<>>]
    /\ UNCHANGED <<aiResponse, tldrArticles, wordCount, cleanVars, capacityVars, serviceVars>>

NextModes == AppendPiece \/ RunMatchQuoted \/ RunMatchLine \/ RunExtractURLs

SpecModes == InitModes /\ [][NextModes]_vars

----------------------------------------------------------------------------
(* The url mode on responses that name several URLs *)

UrlWords ==
    { <<"h","t","t","p","s",":","/","/","e",".","c","o","/","a">>,
      <<"h","t","t","p","s",":","/","/","e",".","c","o","/","a",".">>,
      <<"h","t","t","p","s",":","/","/","e",".","c","o","/","a","?","u","t","m","_","s","=","x">>,
      <<"h","t","t","p","s",":","/","/","e",".","c","o","/","b">>,
      <<"[","t","]","(","h","t","t","p","s",":","/","/","e",".","c","o","/","b",")">>,
      <<"h","t","t","p","s",":","/","/","b","i","t",".","l","y","/","x">>,
      <<"h","t","t","p",":","/","/","x">>,
      <<"s","e","e">> }

InitUrl ==
    /\ aiResponse = <<>>
    /\ tldrArticles = <<>>
    /\ mode = "none"
    /\ outcome = NoOutcome
    /\ wordCount = 0
    /\ CleanIdle
    /\ CapacityIdle
    /\ ServiceIdle

AppendWord ==
    /\ mode = "none"
    /\ wordCount < MaxWords
    /\ \E w \in UrlWords, sep \in {" ", "\n"} :
          aiResponse' = (IF aiResponse = <<>> THEN <<>> ELSE Append(aiResponse, sep)) \o w
    /\ wordCount' = wordCount + 1
    /\ UNCHANGED <<tldrArticles, mode, outcome, cleanVars, capacityVars, serviceVars>>

NextUrl == AppendWord \/ RunExtractURLs

SpecUrl == InitUrl /\ [][NextUrl]_vars

----------------------------------------------------------------------------
(* URL cleanup on one URL with several query parameters *)

CleanBases ==
    { <<"h","t","t","p","s",":","/","/","e",".","c","o">>,
      <<"h","t","t","p","s",":","/","/","E",".","c","o","/","a">>,
      <<"h","t","t","p",":","/","/","e",".","c","o",":","8","0","/","a">>,
      <<"h","t","t","p","s",":","/","/","e",".","c","o",":","x","/","a">> }

ParamPool ==
    { <<"u","t","m","_","s","=","x">>,
      <<"r","e","f","=","a">>,
      <<"r","e","f","e","r","=","a">>,
      <<"f","b","c","l","i","d","=","1">>,
      <<"R","e","f","=","1">>,
      <<"i","d","=","1">>,
      <<"i","d","=","2">>,
      <<"q","=","a","+","%","2","6">>,
      <<"f","l","a","g">> }

MatcherIdle ==
    /\ aiResponse = <<>>
    /\ tldrArticles = <<>>
    /\ mode = "none"
    /\ outcome = NoOutcome
    /\ wordCount = 0

InitClean ==
    /\ cleanInput \in CleanBases
    /\ paramCount = 0
    /\ cleanOutput = NoClean
    /\ MatcherIdle
    /\ CapacityIdle
    /\ ServiceIdle

AddParam ==
    /\ ~cleanOutput.done
    /\ paramCount < MaxParams
    /\ ~IncludesChar(cleanInput, "#")
    /\ \E p \in ParamPool :
          cleanInput' = cleanInput \o (IF paramCount = 0 THEN <<"?">> ELSE <<"&">>) \o p
    /\ paramCount' = paramCount + 1
    /\ UNCHANGED <<cleanOutput, matcherVars, capacityVars, serviceVars>>

AddFragment ==
    /\ ~cleanOutput.done
    /\ ~IncludesChar(cleanInput, "#")
    /\ cleanInput' = cleanInput \o <<"#", "f">>
    /\ UNCHANGED <<paramCount, cleanOutput, matcherVars, capacityVars, serviceVars>>

RunClean ==
    /\ ~cleanOutput.done
    /\ cleanOutput' = [done |-> TRUE, url |-> cleanAndValidateURL(cleanInput)]
    /\ UNCHANGED <<cleanInput, paramCount, matcherVars, capacityVars, serviceVars>>

NextClean == AddParam \/ AddFragment \/ RunClean

SpecClean == InitClean /\ [][NextClean]_vars

----------------------------------------------------------------------------
(* The Capacity Estimator: readingAnalysis after the history fetch.  The    *)
(* code computes in double precision; the capacities are kept here as exact *)
(* fractions num/den.  The rounding of the doubles moves the ceiling only   *)
(* for counts whose estimate lies above the upper clamp.                    *)

Frac(n, d) == [num |-> n, den |-> d]
FracTimes(f, k) == [num |-> f.num * k, den |-> f.den]

\* Math.ceil of a non-negative fraction
Ceil(f) == (f.num + f.den - 1) \div f.den

\* the default window of getWellReadDocuments, 4 weeks, taken for the estimate
AssumedDaysDefault == 4 * 7

\* the window the estimate assumes: "the last 6 weeks"
AssumedDays == 6 * 7

\* an upper clamp that assigns the value of the lower one
ClampBothToLow(c) == IF c < 3 \/ c > 25 THEN 3 ELSE c

\* the lower clamp alone
ClampLowOnly(c) == IF c < 3 THEN 3 ELSE c

\* the two clamps on recommendedArticleCount
Clamp(c) ==
    LET low == IF c < 3 THEN 3 ELSE c
    IN IF low > 25 THEN 25 ELSE low

readingAnalysis(wellReadLength) ==
    LET readingCapacityPerDay == Frac(wellReadLength, AssumedDays)
        savingCapacityPerDay == FracTimes(readingCapacityPerDay, 2)
    IN [done |-> TRUE,
        readingCapacityPerDay |-> readingCapacityPerDay,
        savingCapacityPerDay |-> savingCapacityPerDay,
        recommendedArticleCount |-> Clamp(Ceil(FracTimes(savingCapacityPerDay, 7)))]

\* the days getWellReadDocuments looks back for a window given in weeks
WindowDays(window) == window.amount * 7

InitCapacity ==
    /\ fetchWindow = NoWindow
    /\ wellReadCount = -1
    /\ analysis = NoAnalysis
    /\ MatcherIdle
    /\ CleanIdle
    /\ ServiceIdle

\* recommendArticles: sdk.getWellReadDocuments(6, "weeks") returns its documents
FetchForRecommend ==
    /\ fetchWindow = NoWindow
    /\ fetchWindow' = [amount |-> 6, unit |-> "weeks"]
    /\ \E n \in 0..MaxWellRead : wellReadCount' = n
    /\ UNCHANGED <<analysis, matcherVars, cleanVars, serviceVars>>

\* analyzeReadingPatterns: sdk.getWellReadDocuments(6, "months"); no estimate follows
FetchForPatterns ==
    /\ fetchWindow = NoWindow
    /\ fetchWindow' = [amount |-> 6, unit |-> "months"]
    /\ \E n \in 0..MaxWellRead : wellReadCount' = n
    /\ UNCHANGED <<analysis, matcherVars, cleanVars, serviceVars>>

\* recommendArticles: readingAnalysis(allTLDRArticles, wellReadDocs)
RunReadingAnalysis ==
    /\ fetchWindow.unit = "weeks"
    /\ ~analysis.done
    /\ analysis' = readingAnalysis(wellReadCount)
    /\ UNCHANGED <<fetchWindow, wellReadCount, matcherVars, cleanVars, serviceVars>>

NextCapacity == FetchForRecommend \/ FetchForPatterns \/ RunReadingAnalysis

SpecCapacity == InitCapacity /\ [][NextCapacity]_vars

----------------------------------------------------------------------------
(* Properties of the Response Matcher *)

TitleMode == mode \in {"quoted", "line"}

\* the identifiers the matcher extracted from the response
Extracted ==
    IF mode = "quoted" THEN ExtractQuoted(aiResponse) ELSE ExtractLines(aiResponse)

\* what the resolver of the mode returned for one extracted title
Resolution(title) ==
    IF mode = "quoted" THEN ResolveQuoted(TitleToUrlMap(tldrArticles), title)
    ELSE ResolveLine(TitleToUrlMap(tldrArticles), title)

\* a candidate title that a tier of the mode accepts for an extracted title
TierAccepts(candidateTitle, title) ==
    \/ candidateTitle = title
    \/ ToLower(candidateTitle) = ToLower(title)
    \/ mode = "quoted" /\ Normalize(candidateTitle) = Normalize(title)

CandidateUrls == {tldrArticles[k].url : k \in DOMAIN tldrArticles}

\* C1: in both title modes the matcher either raises or returns a list that
\* holds, for every extracted identifier and in its position, the URL of a
\* candidate whose title the mode accepts for it; a shorter list is never
\* returned.
C1_AllOrNothing ==
    TitleMode =>
        \/ outcome.kind = "throw"
        \/ /\ outcome.kind = "return"
           /\ Len(outcome.urls) = Len(Extracted)
           /\ \A i \in DOMAIN Extracted :
                 \E k \in DOMAIN tldrArticles :
                    /\ tldrArticles[k].url = outcome.urls[i]
                    /\ TierAccepts(tldrArticles[k].title, Extracted[i])

\* a quoted-mode run that raised although one of its several titles resolved
C1_Witness ==
    /\ mode = "quoted"
    /\ outcome.kind = "throw"
    /\ Len(Extracted) >= 2
    /\ \E i \in DOMAIN Extracted : Resolution(Extracted[i]) # Null

\* C2: whenever the matcher raises, the titles listed in the error message are
\* exactly the extracted titles for which resolution returned no URL, each as
\* extracted and in extraction order.
C2_MessageListsUnresolved ==
    (TitleMode /\ outcome.kind = "throw") =>
        outcome.unmatched = SelectSeq(Extracted, LAMBDA t : Resolution(t) = Null)

\* a quoted-mode run that raised with one title unresolved and another one
\* resolved by the normalized tier only
C2_Witness ==
    /\ mode = "quoted"
    /\ outcome.kind = "throw"
    /\ outcome.unmatched # <<>>
    /\ \E i \in DOMAIN Extracted :
          /\ Resolution(Extracted[i]) # Null
          /\ \A k \in DOMAIN tldrArticles :
                ToLower(tldrArticles[k].title) # ToLower(Extracted[i])

\* C3 as stated: in every mode, url mode included, every returned URL is the
\* url of a candidate article.
C3_EveryModeReturnsCandidates ==
    outcome.kind = "return" =>
        \A i \in DOMAIN outcome.urls : outcome.urls[i] \in CandidateUrls

\* C3, amended: in the two title modes every returned URL is the url of a
\* candidate article.
C3_TitleModesReturnCandidates ==
    (TitleMode /\ outcome.kind = "return") =>
        \A i \in DOMAIN outcome.urls : outcome.urls[i] \in CandidateUrls

\* a title-mode run that returned the URLs of two titles
C3_Witness ==
    /\ TitleMode
    /\ outcome.kind = "return"
    /\ Len(outcome.urls) >= 2

\* the sequences of candidate articles whose titles fit a typed response
ArticleSeqs == UNION {[1..n -> DOMAIN tldrArticles] : n \in 0..((MaxLen + 1) \div 2)}

\* the response that holds exactly the titles of S, one per line
TitlesText(S) == Join([i \in DOMAIN S |-> tldrArticles[S[i]].title], <<"\n">>)

UrlsOf(S) == [i \in DOMAIN S |-> tldrArticles[S[i]].url]

\* C4 as stated: for every sequence S of candidate articles, the line mode on
\* the titles of S, one per line, returns the URLs of S in order.
C4_RoundTrip ==
    mode = "line" =>
        \A S \in ArticleSeqs :
            aiResponse = TitlesText(S) =>
                outcome.kind = "return" /\ outcome.urls = UrlsOf(S)

\* a title the line mode can carry: not empty, on one line, trimmed
LineTitle(t) == t # <<>> /\ ~IncludesChar(t, "\n") /\ Trim(t) = t

\* no later candidate bears the title of candidate k
LastBearer(k) ==
    \A j \in DOMAIN tldrArticles : j > k => tldrArticles[j].title # tldrArticles[k].title

\* C4, amended: the round trip holds for the sequences S whose titles are
\* non-empty, on one line and trimmed, and are borne by no later candidate.
C4_RoundTripLastBearers ==
    mode = "line" =>
        \A S \in ArticleSeqs :
            ( /\ aiResponse = TitlesText(S)
              /\ \A i \in DOMAIN S :
                    LineTitle(tldrArticles[S[i]].title) /\ LastBearer(S[i]) )
            => outcome.kind = "return" /\ outcome.urls = UrlsOf(S)

\* a line-mode run on the titles of two different candidates, in response order
C4_Witness ==
    /\ mode = "line"
    /\ outcome.kind = "return"
    /\ \E S \in ArticleSeqs :
          /\ Len(S) = 2
          /\ S[1] > S[2]
          /\ aiResponse = TitlesText(S)
          /\ outcome.urls = UrlsOf(S)

OnlyCaseDiffers(title, candidateTitle) ==
    title # candidateTitle /\ ToLower(title) = ToLower(candidateTitle)

\* C5 as stated: an extracted title that differs from a candidate's title only
\* in letter case resolves to the URL of that candidate.
C5_CaseInsensitive ==
    TitleMode =>
        \A i \in DOMAIN Extracted : \A k \in DOMAIN tldrArticles :
            OnlyCaseDiffers(Extracted[i], tldrArticles[k].title) =>
                /\ outcome.kind = "return" => outcome.urls[i] = tldrArticles[k].url
                /\ outcome.kind = "throw" =>
                      \A j \in DOMAIN outcome.unmatched : outcome.unmatched[j] # Extracted[i]

\* no other candidate's title equals the title of candidate k up to case
SoleUpToCase(k) ==
    \A j \in DOMAIN tldrArticles :
        j # k => ToLower(tldrArticles[j].title) # ToLower(tldrArticles[k].title)

\* every extracted title equals the title of some candidate up to case
AllTitlesKnownUpToCase ==
    \A i \in DOMAIN Extracted : \E k \in DOMAIN tldrArticles :
        ToLower(tldrArticles[k].title) = ToLower(Extracted[i])

\* C5, amended: such a title is never reported unresolved, and a run all of
\* whose titles equal a candidate's title up to case returns; the title
\* resolves to the URL of a candidate whose title equals it up to case, and to
\* the URL of that very candidate when no other candidate's title equals it up
\* to case.
C5_CaseInsensitiveSole ==
    TitleMode =>
        /\ AllTitlesKnownUpToCase => outcome.kind = "return"
        /\ \A i \in DOMAIN Extracted : \A k \in DOMAIN tldrArticles :
              OnlyCaseDiffers(Extracted[i], tldrArticles[k].title) =>
                /\ outcome.kind = "return" =>
                      /\ \E j \in DOMAIN tldrArticles :
                            /\ ToLower(tldrArticles[j].title) = ToLower(Extracted[i])
                            /\ outcome.urls[i] = tldrArticles[j].url
                      /\ SoleUpToCase(k) => outcome.urls[i] = tldrArticles[k].url
                /\ outcome.kind = "throw" =>
                      \A j \in DOMAIN outcome.unmatched : outcome.unmatched[j] # Extracted[i]

\* a run that returned the URL of the one candidate whose title differs from
\* an extracted title in case only
C5_Witness ==
    /\ TitleMode
    /\ outcome.kind = "return"
    /\ \E i \in DOMAIN Extracted : \E k \in DOMAIN tldrArticles :
          /\ OnlyCaseDiffers(Extracted[i], tldrArticles[k].title)
          /\ SoleUpToCase(k)
          /\ outcome.urls[i] = tldrArticles[k].url

\* lower-case, then delete every character that is no letter and no digit
AlphanumericOnly(s) == SelectSeq(ToLower(s), LAMBDA c : c \in Letters \cup Digits)

\* C6: in quoted mode an extracted title that equals a candidate's title after
\* lower-casing both and deleting every non-alphanumeric character from both
\* resolves: it is never reported unresolved.
C6_NormalizedResolves ==
    (mode = "quoted" /\ outcome.kind = "throw") =>
        \A i \in DOMAIN Extracted : \A k \in DOMAIN tldrArticles :
            AlphanumericOnly(Extracted[i]) = AlphanumericOnly(tldrArticles[k].title) =>
                \A j \in DOMAIN outcome.unmatched : outcome.unmatched[j] # Extracted[i]

----------------------------------------------------------------------------
(* Properties of URL cleanup and of the url mode *)

\* the deny-list, entry by entry: key equals or begins with an entry
OnDenyList(key) ==
    \E n \in DOMAIN trackingParams :
        /\ Len(trackingParams[n]) <= Len(key)
        /\ \A i \in DOMAIN trackingParams[n] : key[i] = trackingParams[n][i]

ExampleUrl ==
    <<"h","t","t","p","s",":","/","/","e","x","a","m","p","l","e",".","c","o","m","/","a",
      "?","u","t","m","_","s","o","u","r","c","e","=","x","&","i","d","=","1","2","3">>

ExampleCleaned ==
    <<"h","t","t","p","s",":","/","/","e","x","a","m","p","l","e",".","c","o","m","/","a",
      "?","i","d","=","1","2","3">>

\* C7: for a URL that parses, the cleaned URL holds exactly the query
\* parameters of the input whose key is not on the deny-list, with their
\* values and in their order, and has the scheme, host, port, path and
\* fragment of the input; the example of the claim is cleaned as stated.
C7_CleanupRemovesTracking ==
    /\ cleanAndValidateURL(ExampleUrl) = ExampleCleaned
    /\ (cleanOutput.done /\ ParseURL(cleanInput).ok) =>
          LET in == ParseURL(cleanInput)
              out == ParseURL(cleanOutput.url)
          IN /\ out.ok
             /\ ParseParams(SearchOf(out))
                   = SelectSeq(ParseParams(SearchOf(in)), LAMBDA p : ~OnDenyList(p.key))
             /\ out.scheme = in.scheme
             /\ out.host = in.host
             /\ out.port = in.port
             /\ out.path = in.path
             /\ out.hasFragment = in.hasFragment
             /\ out.fragment = in.fragment

\* a cleanup that removed a parameter matched by prefix and kept two others
C7_Witness ==
    /\ cleanOutput.done
    /\ ParseURL(cleanInput).ok
    /\ \E p \in Range(ParseParams(SearchOf(ParseURL(cleanInput)))) :
          OnDenyList(p.key) /\ p.key \notin Range(trackingParams)
    /\ Len(ParseParams(SearchOf(ParseURL(cleanOutput.url)))) >= 2

\* the index of the first occurrence of u in urls
FirstIndex(urls, u) == CHOOSE i \in DOMAIN urls : urls[i] = u /\ \A j \in 1..(i - 1) : urls[j] # u

\* C8: the list the url mode returns holds every cleaned URL of the response
\* exactly once, in the order of the first occurrences.
C8_UrlModeDeduplicates ==
    mode = "url" =>
        LET all == CleanedUrls(aiResponse)
            urls == outcome.urls
        IN /\ Range(urls) = Range(all)
           /\ \A i, j \in DOMAIN urls : i # j => urls[i] # urls[j]
           /\ \A i, j \in DOMAIN urls :
                 i < j => FirstIndex(all, urls[i]) < FirstIndex(all, urls[j])

\* a response that names a URL, then another one, then the first one again in
\* a different spelling
C8_Witness ==
    /\ mode = "url"
    /\ Len(UrlMatchesFrom(aiResponse, 1)) = 3
    /\ Len(CleanedUrls(aiResponse)) = 3
    /\ UrlMatchesFrom(aiResponse, 1)[1] # UrlMatchesFrom(aiResponse, 1)[3]
    /\ CleanedUrls(aiResponse)[1] = CleanedUrls(aiResponse)[3]
    /\ Len(outcome.urls) = 2
    /\ outcome.urls[1] = CleanedUrls(aiResponse)[1]

----------------------------------------------------------------------------
(* Properties of the Capacity Estimator *)

\* C9: recommendedArticleCount is an integer between 3 and 25.
C9_CountInRange ==
    analysis.done => analysis.recommendedArticleCount \in 3..25

\* an estimate whose ceiling lies above the upper clamp
C9_Witness ==
    /\ analysis.done
    /\ 14 * wellReadCount > 25 * 42
    /\ analysis.recommendedArticleCount = 25

\* the least integer that is not below num/den
LeastIntegerAbove(num, den) ==
    CHOOSE k \in 0..(num + 1) : k * den >= num /\ (k - 1) * den < num

C11_MonotoneInWellRead ==
    analysis.done =>
        \A w1, w2 \in 0..wellReadCount :
            w1 <= w2 =>
                readingAnalysis(w1).recommendedArticleCount
                    <= readingAnalysis(w2).recommendedArticleCount
                /\ readingAnalysis(w2).recommendedArticleCount
                    <= analysis.recommendedArticleCount

\* an estimate above the upper clamp's threshold, with smaller counts whose
\* estimates lie on the lower clamp and strictly between the clamps
C11_Witness ==
    /\ analysis.done
    /\ analysis.recommendedArticleCount = 25
    /\ \E w1, w2 \in 0..wellReadCount :
          /\ w1 < w2
          /\ readingAnalysis(w1).recommendedArticleCount = 3
          /\ readingAnalysis(w2).recommendedArticleCount \in 4..24

----------------------------------------------------------------------------
(* The History Fetcher: ReadwiseReaderSDK.getWellReadDocuments.  Every     *)
(* await of the pagination loop is a step: a list call is issued and the    *)
(* service answers it with a page or with a failure.                        *)

MaxPages == 3        \* list calls of one run

\* reading_progress is kept in hundredths: 0.75 is 75
progressThreshold == 75

\* a document of the archive
Doc(id, progress) == [id |-> id, reading_progress |-> progress]

\* the results of the pages the service answers with
PagePool ==
    { <<>>,
      <<Doc(1, 50), Doc(2, 100)>>,
      <<Doc(3, 75), Doc(4, 76)>>,
      <<Doc(5, 80)>> }

\* the nextPageCursor of an answer: absent, or one of two cursors
CursorAnswers == {NoCursor, "c1", "c2"}

\* the ways listDocuments fails: fetch rejects, or the response is not ok
ListErrors == {"fetch failed", "Error listing documents: 500"}

\* the truthiness of a cursor, as while (nextPageCursor) and
\* if (queryParams.pageCursor) test it
Truthy(cursor) == cursor # NoCursor /\ cursor # ""

\* the query of a list call: pageCursor is sent only when it is truthy
ListQuery(location, cursor) ==
    [location |-> location, pageCursor |-> IF Truthy(cursor) THEN cursor ELSE NoCursor]

PageAnswer(results, cursor) ==
    [ok |-> TRUE, results |-> results, nextPageCursor |-> cursor, error |-> NoError]

FailureAnswer(err) ==
    [ok |-> FALSE, results |-> <<>>, nextPageCursor |-> NoCursor, error |-> err]

\* an accumulation that keeps the last page only
AccumulateLastPage(all, results) == results

\* allDocuments = [...allDocuments, ...response.results]
Accumulate(all, results) == all \o results

\* a filter that keeps the threshold itself
IsWellReadInclusive(doc) == doc.reading_progress >= progressThreshold

\* doc.reading_progress > 0.75
IsWellRead(doc) == doc.reading_progress > progressThreshold

\* a failure handled by returning what was fetched so far
OnListFailureReturnPartial(docs, err) ==
    [kind |-> "return", docs |-> SelectSeq(docs, IsWellRead), error |-> NoError]

\* a rejected list call is not caught: getWellReadDocuments rejects with it
OnListFailure(docs, err) == [kind |-> "throw", docs |-> <<>>, error |-> err]

\* one iteration of the loop whose list call the service answers with a page
ListPageAnswered(results, cursor) ==
    /\ listCalls' = Append(listCalls, ListQuery("archive", nextPageCursor))
    /\ listAnswers' = Append(listAnswers, PageAnswer(results, cursor))
    /\ allDocuments' = Accumulate(allDocuments, results)
    /\ nextPageCursor' = cursor
    /\ fetchResult' =
          IF Truthy(cursor) THEN fetchResult
          ELSE [kind |-> "return",
                docs |-> SelectSeq(Accumulate(allDocuments, results), IsWellRead),
                error |-> NoError]

\* one iteration of the loop whose list call fails
ListPageFailed(err) ==
    /\ listCalls' = Append(listCalls, ListQuery("archive", nextPageCursor))
    /\ listAnswers' = Append(listAnswers, FailureAnswer(err))
    /\ fetchResult' = OnListFailure(allDocuments, err)
    /\ UNCHANGED <<allDocuments, nextPageCursor>>

HistoryFetching == fetchResult.kind = "none" /\ Len(listCalls) < MaxPages

InitHistory ==
    /\ HistoryIdle
    /\ ExtractIdle
    /\ MatcherIdle
    /\ CleanIdle
    /\ CapacityIdle
    /\ ImportIdle
    /\ RunIdle

FetchPage ==
    /\ HistoryFetching
    /\ \E results \in PagePool, cursor \in CursorAnswers : ListPageAnswered(results, cursor)
    /\ UNCHANGED <<matcherVars, cleanVars, capacityVars, importVars, runVars, extractVars>>

FetchPageFails ==
    /\ HistoryFetching
    /\ \E err \in ListErrors : ListPageFailed(err)
    /\ UNCHANGED <<matcherVars, cleanVars, capacityVars, importVars, runVars, extractVars>>

NextHistory == FetchPage \/ FetchPageFails

SpecHistory == InitHistory /\ [][NextHistory]_vars

----------------------------------------------------------------------------
(* Properties of the History Fetcher *)

\* the pages of the answers, one after the other
RECURSIVE PagesConcatenated(_)
PagesConcatenated(answers) ==
    IF answers = <<>> THEN <<>>
    ELSE PagesConcatenated(SubSeq(answers, 1, Len(answers) - 1))
         \o answers[Len(answers)].results

CarriesCursor(answer) == answer.ok /\ answer.nextPageCursor # NoCursor

\* C12: when the service answered with k pages of which exactly the first k-1
\* carry a nextPageCursor, getWellReadDocuments has issued exactly k list
\* calls, the first without a cursor and each later one with the cursor of the
\* answer before it, and has accumulated the k pages in fetch order.
C12_Pagination ==
    fetchResult.kind = "return" =>
        LET k == Len(listAnswers)
        IN /\ k >= 1
           /\ \A i \in 1..(k - 1) : CarriesCursor(listAnswers[i])
           /\ listAnswers[k].ok /\ ~CarriesCursor(listAnswers[k])
           /\ Len(listCalls) = k
           /\ listCalls[1].pageCursor = NoCursor
           /\ \A i \in 2..k : listCalls[i].pageCursor = listAnswers[i - 1].nextPageCursor
           /\ allDocuments = PagesConcatenated(listAnswers)

\* three pages of 2, 2 and 1 records, the first two with different cursors:
\* three calls and five records
C12_Witness ==
    /\ fetchResult.kind = "return"
    /\ Len(listAnswers) = 3
    /\ Len(listAnswers[1].results) = 2
    /\ Len(listAnswers[2].results) = 2
    /\ Len(listAnswers[3].results) = 1
    /\ listAnswers[1].nextPageCursor # listAnswers[2].nextPageCursor
    /\ Len(listCalls) = 3
    /\ Len(allDocuments) = 5

\* C13: the list getWellReadDocuments returns holds exactly the fetched
\* records whose reading_progress is strictly greater than 0.75, in fetched
\* order.
C13_FilterAboveThreshold ==
    fetchResult.kind = "return" =>
        fetchResult.docs
            = SelectSeq(PagesConcatenated(listAnswers), LAMBDA d : d.reading_progress > 75)

\* a fetch of two pages that returned records of both pages and left out a
\* record at exactly 0.75
C13_Witness ==
    /\ fetchResult.kind = "return"
    /\ Len(listAnswers) = 2
    /\ \E i \in DOMAIN allDocuments : allDocuments[i].reading_progress = 75
    /\ \A i \in DOMAIN fetchResult.docs : fetchResult.docs[i].reading_progress # 75
    /\ \E i, j \in DOMAIN fetchResult.docs :
          i < j /\ fetchResult.docs[i].id \in {3, 4} /\ fetchResult.docs[j].id \notin {3, 4}

\* C14: a failed list call is the last call of the fetch (no further call, no
\* retry); getWellReadDocuments raises the error of that call and returns no
\* record.
C14_FailurePropagates ==
    \A i \in DOMAIN listAnswers :
        ~listAnswers[i].ok =>
            /\ i = Len(listAnswers)
            /\ Len(listCalls) = i
            /\ fetchResult.kind = "throw"
            /\ fetchResult.error = listAnswers[i].error
            /\ fetchResult.docs = <<>>

\* a fetch whose second call failed after a first page with well-read records
C14_Witness ==
    /\ fetchResult.kind = "throw"
    /\ Len(listAnswers) = 2
    /\ listAnswers[1].ok
    /\ \E i \in DOMAIN allDocuments : allDocuments[i].reading_progress > 75

----------------------------------------------------------------------------
(* The Batch Importer: createDocumentsFromRecommendations.  A step runs     *)
(* from one await to the next: the call issues the first creation request;  *)
(* the answer to a request is tallied and followed by the start of the      *)
(* delay, by the next request or by the return; the end of a delay is       *)
(* followed by the next request.                                            *)

MaxUrls == 3         \* URLs handed to the importer

\* the delay when options.rateLimitMs is undefined
defaultRateLimitMs == 1500

\* options.rateLimitMs: undefined, 0, or a number of milliseconds
RateLimitOptions ==
    { [given |-> FALSE, ms |-> 0], [given |-> TRUE, ms |-> 0], [given |-> TRUE, ms |-> 200] }

\* rateLimitMs = options.rateLimitMs !== undefined ? options.rateLimitMs : 1500
EffectiveRateLimit(option) == IF option.given THEN option.ms ELSE defaultRateLimitMs

\* the URLs a list handed to the importer is made of
ImportUrlPool == {CandUrl(1), CandUrl(2)}

ImportUrlLists == UNION {[1..n -> ImportUrlPool] : n \in 0..MaxUrls}

\* a creation request without the provenance marker
CreateParamsUrlOnly(url) == [url |-> url, saved_using |-> Undefined, location |-> "new"]

\* the parameters of sdk.createDocument
CreateParams(url) == [url |-> url, saved_using |-> "AI Recommender", location |-> "new"]

\* the document the service answers the n-th creation request with
NewDoc(n, url) == [id |-> n, url |-> url]

\* a tally that counts the successes only
TallySuccessOnly(success, fail, ok) ==
    [successCount |-> IF ok THEN success + 1 ELSE success, failCount |-> fail]

\* successCount++ after the creation, failCount++ in the catch block
Tally(success, fail, ok) ==
    [successCount |-> IF ok THEN success + 1 ELSE success,
     failCount |-> IF ok THEN fail ELSE fail + 1]

\* a loop that a failed creation ends
LoopContinuesAfterSuccessOnly(ok) == ok

\* the try/catch lies inside the loop body: the loop goes on after a failure
LoopContinuesAfter(ok) == TRUE

\* a delay after every attempt, the last one included
NeedsDelayAfterEvery(ms, i, n) == ms > 0

\* if (rateLimitMs > 0 && index < recommendedUrls.length - 1)
NeedsDelay(ms, i, n) == ms > 0 /\ i < n - 1

AttemptEvent(i, ok) == [kind |-> "attempt", index |-> i, ok |-> ok, ms |-> 0]
DelayEvent(i, ms) == [kind |-> "delay", index |-> i, ok |-> TRUE, ms |-> ms]

\* the call: the counters are reset and the first creation request is issued
StartImport(urls, option) ==
    /\ recommendedUrls' = urls
    /\ rateLimitMs' = EffectiveRateLimit(option)
    /\ index' = 0
    /\ successCount' = 0
    /\ failCount' = 0
    /\ createdDocuments' = <<>>
    /\ importTrace' = <<>>
    /\ IF urls = <<>>
       THEN importPc' = "done" /\ createRequests' = createRequests
       ELSE /\ importPc' = "awaiting"
            /\ createRequests' = Append(createRequests, CreateParams(urls[1]))

\* the creation request of the URL at index is answered: the tally, then the
\* rate-limit test, then the delay, the next request or the return
ImportAnswered(ok) ==
    LET url == recommendedUrls[index + 1]
        tally == Tally(successCount, failCount, ok)
        n == Len(recommendedUrls)
    IN /\ successCount' = tally.successCount
       /\ failCount' = tally.failCount
       /\ createdDocuments' =
             IF ok THEN Append(createdDocuments, NewDoc(Len(createRequests), url))
             ELSE createdDocuments
       /\ UNCHANGED <<recommendedUrls, rateLimitMs>>
       /\ IF ~LoopContinuesAfter(ok)
          THEN /\ importPc' = "raised"
               /\ importTrace' = Append(importTrace, AttemptEvent(index, ok))
               /\ UNCHANGED <<index, createRequests>>
          ELSE IF NeedsDelay(rateLimitMs, index, n)
          THEN /\ importPc' = "delay"
               /\ importTrace' = importTrace \o <<AttemptEvent(index, ok),
                                                  DelayEvent(index, rateLimitMs)>>
               /\ UNCHANGED <<index, createRequests>>
          ELSE IF index + 1 < n
          THEN /\ importPc' = "awaiting"
               /\ importTrace' = Append(importTrace, AttemptEvent(index, ok))
               /\ index' = index + 1
               /\ createRequests' =
                     Append(createRequests, CreateParams(recommendedUrls[index + 2]))
          ELSE /\ importPc' = "done"
               /\ importTrace' = Append(importTrace, AttemptEvent(index, ok))
               /\ UNCHANGED <<index, createRequests>>

\* a delay after which the request of the same URL is issued once more
ImportDelayElapsedRetry ==
    /\ importPc' = "awaiting"
    /\ createRequests' = Append(createRequests, CreateParams(recommendedUrls[index + 1]))
    /\ UNCHANGED <<recommendedUrls, rateLimitMs, index, successCount, failCount,
                   createdDocuments, importTrace>>

\* the delay is over: the loop turns to the next URL, if any, and issues its
\* request
ImportDelayElapsed ==
    /\ IF index + 1 < Len(recommendedUrls)
       THEN /\ importPc' = "awaiting"
            /\ index' = index + 1
            /\ createRequests' =
                  Append(createRequests, CreateParams(recommendedUrls[index + 2]))
       ELSE /\ importPc' = "done"
            /\ UNCHANGED <<index, createRequests>>
    /\ UNCHANGED <<recommendedUrls, rateLimitMs, successCount, failCount,
                   createdDocuments, importTrace>>

InitImport ==
    /\ ImportIdle
    /\ ExtractIdle
    /\ MatcherIdle
    /\ CleanIdle
    /\ CapacityIdle
    /\ HistoryIdle
    /\ RunIdle

CallImporter ==
    /\ importPc = "idle"
    /\ \E urls \in ImportUrlLists, option \in RateLimitOptions : StartImport(urls, option)
    /\ UNCHANGED <<matcherVars, cleanVars, capacityVars, historyVars, runVars, extractVars>>

CreateSucceeds ==
    /\ importPc = "awaiting"
    /\ ImportAnswered(TRUE)
    /\ UNCHANGED <<matcherVars, cleanVars, capacityVars, historyVars, runVars, extractVars>>

CreateFails ==
    /\ importPc = "awaiting"
    /\ ImportAnswered(FALSE)
    /\ UNCHANGED <<matcherVars, cleanVars, capacityVars, historyVars, runVars, extractVars>>

DelayElapses ==
    /\ importPc = "delay"
    /\ ImportDelayElapsed
    /\ UNCHANGED <<matcherVars, cleanVars, capacityVars, historyVars, runVars, extractVars>>

NextImport == CallImporter \/ CreateSucceeds \/ CreateFails \/ DelayElapses

SpecImport == InitImport /\ [][NextImport]_vars

----------------------------------------------------------------------------
(* Properties of the Batch Importer *)

\* the number of events of a kind in the trace of a batch
EventCount(trace, kind) == Cardinality({i \in DOMAIN trace : trace[i].kind = kind})

ImportReturned == importPc = "done"

\* C15: at every moment of a batch successCount + failCount is the number of
\* creation attempts completed so far and the created records are as many as
\* successCount; when the batch returns, successCount + failCount is the
\* number of URLs handed in.
C15_TalliesAddUp ==
    /\ successCount + failCount = EventCount(importTrace, "attempt")
    /\ Len(createdDocuments) = successCount
    /\ ImportReturned => successCount + failCount = Len(recommendedUrls)

C15_Witness ==
    /\ ImportReturned
    /\ Len(recommendedUrls) = 3
    /\ successCount = 2
    /\ failCount = 1

\* the attempts of a trace, in the order they completed
Attempts(trace) == SelectSeq(trace, LAMBDA e : e.kind = "attempt")

\* the records the service answered the successful attempts with, in the
\* order of the attempts
RECURSIVE DocsOfSuccesses(_, _)
DocsOfSuccesses(attempts, urls) ==
    IF attempts = <<>> THEN <<>>
    ELSE LET e == Head(attempts)
             rest == DocsOfSuccesses(Tail(attempts), urls)
         IN IF e.ok THEN <<NewDoc(e.index + 1, urls[e.index + 1])>> \o rest ELSE rest

\* the second of three creations fails, the other two succeed
SecondOfThreeFailed ==
    /\ ImportReturned
    /\ Len(recommendedUrls) = 3
    /\ [i \in 1..3 |-> Attempts(importTrace)[i].ok] = <<TRUE, FALSE, TRUE>>

\* C16: a failed creation never ends the batch: the importer raises nothing,
\* the attempts completed so far are those of the first URLs in input order,
\* at the return every URL was attempted, and the created records are those
\* of the successful creations in input order; with three URLs of which the
\* second fails the result is 2 successes, 1 failure and the records of the
\* first and the third.
C16_FailureIsolated ==
    LET attempts == Attempts(importTrace)
    IN /\ importPc # "raised"
       /\ \A i \in DOMAIN attempts : attempts[i].index = i - 1
       /\ ImportReturned => Len(attempts) = Len(recommendedUrls)
       /\ createdDocuments = DocsOfSuccesses(attempts, recommendedUrls)
       /\ SecondOfThreeFailed =>
             /\ successCount = 2
             /\ failCount = 1
             /\ createdDocuments = <<NewDoc(1, recommendedUrls[1]), NewDoc(3, recommendedUrls[3])>>

C16_Witness ==
    /\ SecondOfThreeFailed
    /\ Len(createdDocuments) = 2
    /\ createdDocuments[2].id = 3

\* the delays of a trace
Delays(trace) == SelectSeq(trace, LAMBDA e : e.kind = "delay")

\* the event at position i of the trace is an attempt that is not the last
\* of its batch
AttemptBeforeLast(i) ==
    /\ importTrace[i].kind = "attempt"
    /\ importTrace[i].index < Len(recommendedUrls) - 1

\* C17: with a positive delay the importer suspends right after every
\* attempt but the last, failed or not, for the configured time, and never
\* after the last one, so that a batch of n URLs has suspended max(n - 1, 0)
\* times when it returns; with a delay of 0 it never suspends; the delay is
\* 1500 ms when none is configured.
C17_DelayBetweenAttempts ==
    LET n == Len(recommendedUrls)
    IN /\ EffectiveRateLimit([given |-> FALSE, ms |-> 0]) = 1500
       /\ rateLimitMs = 0 => Delays(importTrace) = <<>>
       /\ rateLimitMs > 0 =>
             /\ \A i \in DOMAIN importTrace :
                   /\ AttemptBeforeLast(i) =>
                         /\ i < Len(importTrace)
                         /\ importTrace[i + 1] = DelayEvent(importTrace[i].index, rateLimitMs)
                   /\ importTrace[i].kind = "delay" =>
                         /\ i > 1
                         /\ AttemptBeforeLast(i - 1)
                         /\ importTrace[i].index = importTrace[i - 1].index
             /\ ImportReturned =>
                   Len(Delays(importTrace)) = IF n >= 1 THEN n - 1 ELSE 0
       /\ importPc = "delay" =>
             /\ importTrace # <<>>
             /\ importTrace[Len(importTrace)].kind = "delay"

C17_Witness ==
    /\ ImportReturned
    /\ rateLimitMs = 1500
    /\ Len(recommendedUrls) = 3
    /\ Len(Delays(importTrace)) = 2
    /\ ~Attempts(importTrace)[1].ok
    /\ Attempts(importTrace)[3].ok

\* C18: the i-th creation request of a batch carries the i-th URL handed in,
\* character for character, with saved_using "AI Recommender" and location
\* "new", whether the creation then succeeds or fails.
C18_RequestCarriesMarker ==
    /\ Len(createRequests) <= Len(recommendedUrls)
    /\ \A i \in DOMAIN createRequests :
          createRequests[i] =
            [url |-> recommendedUrls[i], saved_using |-> "AI Recommender", location |-> "new"]

C18_Witness ==
    /\ ImportReturned
    /\ Len(createRequests) = 3
    /\ createRequests[1].url # createRequests[2].url
    /\ createRequests[3].saved_using = "AI Recommender"
    /\ failCount = 1

----------------------------------------------------------------------------
(* A run of the command line: main, analyzeReadingPatterns and              *)
(* recommendArticles.  A step runs from one await to the next; a list call  *)
(* is issued and answered in one step; the files the run writes are written *)
(* without failure.                                                         *)

MaxLines == 2        \* lines pasted as the AI response of a run

\* process.argv[2] || "recommend"
Commands == {"analyze-reading", "recommend", "--help", "unknown"}

\* process.env.READWISE_READER_KEY: not set, set to nothing, set
TokenValues == {Undefined, "", "k"}

\* a constructor that rejects the undefined token only
TokenAcceptedUnlessUndefined(t) == t # Undefined

\* the constructor's test of the token: if (!token) throw
TokenAccepted(t) == Truthy(t)

TokenRequired == "API token is required"
FailedToMatch == "Failed to match all titles to URLs"

\* a document of the feed, given by the links parseTLDRLinks finds in its
\* html_content
FeedDoc(id, found) == [id |-> id, links |-> found]

Article(title, i) == [title |-> title, url |-> CandUrl(i)]

\* the results of the feed pages the service answers with
FeedPagePool ==
    { <<>>,
      <<FeedDoc(1, <<Article(<<"a">>, 1)>>), FeedDoc(2, <<Article(<<"b">>, 2)>>)>> }

\* docsResponse.results.flatMap((doc) => parseTLDRLinks(doc.html_content || ""))
RECURSIVE PageArticles(_)
PageArticles(results) ==
    IF results = <<>> THEN <<>>
    ELSE Head(results).links \o PageArticles(Tail(results))

\* the pages of the archive and the cursors of a run
RunPagePool == { <<>>, <<Doc(3, 75), Doc(4, 76)>> }
RunCursors == {NoCursor, "c1"}

\* the lines pasted as the AI response
LinePool ==
    { <<"a">>,
      <<"\"", "a", "\"">>,
      <<"\"", "b", "\"">>,
      <<"\"", "z", "\"">> }

LineCount(text) == Cardinality({i \in DOMAIN text : text[i] = "\n"})

\* the answers typed at a y/n question
Confirmations == { <<"y">>, <<"Y", "e", "s">>, <<"n">>, <<>> }

\* a test that takes the empty answer for a yes as well
IsYesOrEmpty(answer) ==
    answer = <<>> \/ ToLower(answer) = <<"y">> \/ ToLower(answer) = <<"y", "e", "s">>

\* answer.toLowerCase() === "y" || answer.toLowerCase() === "yes"
IsYes(answer) == ToLower(answer) = <<"y">> \/ ToLower(answer) = <<"y", "e", "s">>

ReplacementUrl == <<"h","t","t","p","s",":","/","/","x",".","c","o","/","9">>

\* the answers typed at the removal question
RemovalAnswers ==
    { <<>>,
      <<"1">>,
      <<"2", ",", " ", "x">>,
      <<"1", "x">>,
      <<"0", ",", "3">> }

\* the lines typed at the modification prompt
EditAnswers ==
    { <<>>,
      <<"1", ":">> \o ReplacementUrl,
      <<"9", ":">> \o ReplacementUrl,
      <<"1", ":", "f", "t", "p">> }

\* the longest prefix of s made of decimal digits
LeadingDigits(s) ==
    LET n == CHOOSE k \in 0..Len(s) :
                /\ \A i \in 1..k : s[i] \in Digits
                /\ k = Len(s) \/ s[k + 1] \notin Digits
    IN SubSeq(s, 1, n)

\* parseInt(s, 10): white space is skipped, a sign is read, then the leading
\* digits; NaN when there is none
ParseInt(s) ==
    LET t == Trim(s)
        signed == t # <<>> /\ t[1] \in {"+", "-"}
        body == IF signed THEN Tail(t) ELSE t
        digits == LeadingDigits(body)
    IN IF digits = <<>> THEN [nan |-> TRUE, value |-> 0]
       ELSE [nan |-> FALSE,
             value |-> IF signed /\ t[1] = "-" THEN 0 - DecimalValue(digits)
                       ELSE DecimalValue(digits)]

\* removeIndexes.split(",").map(parseInt(idx.trim(), 10) - 1).filter(valid),
\* then recommendedUrls.filter((_, idx) => !indexesToRemove.includes(idx))
RemoveIndexes(urls, answer) ==
    LET parts == Split(answer, ",")
        parsed == [i \in DOMAIN parts |-> ParseInt(Trim(parts[i]))]
        indexesToRemove ==
            {parsed[i].value - 1 : i \in {j \in DOMAIN parts :
                /\ ~parsed[j].nan
                /\ parsed[j].value - 1 >= 0
                /\ parsed[j].value - 1 < Len(urls)}}
        kept == SelectSeq([k \in 1..Len(urls) |-> k], LAMBDA k : (k - 1) \notin indexesToRemove)
    IN [j \in DOMAIN kept |-> urls[kept[j]]]

\* a replacement that takes any text for the new URL
ApplyEditAnyUrl(urls, line) ==
    LET digits == LeadingDigits(line)
        rest == SubSeq(line, Len(digits) + 2, Len(line))
        matches == /\ digits # <<>>
                   /\ Len(line) > Len(digits) + 1
                   /\ line[Len(digits) + 1] = ":"
        i == DecimalValue(digits) - 1
    IN IF matches /\ i >= 0 /\ i < Len(urls)
       THEN [urls EXCEPT ![i + 1] = Trim(rest)]
       ELSE urls

\* edit.match(/^(\d+):(.+)$/), then finalUrls[index] = newUrl when the index
\* is within the list and newUrl.startsWith("http")
ApplyEdit(urls, line) ==
    LET digits == LeadingDigits(line)
        rest == SubSeq(line, Len(digits) + 2, Len(line))
        matches == /\ digits # <<>>
                   /\ Len(line) > Len(digits) + 1
                   /\ line[Len(digits) + 1] = ":"
                   /\ \A i \in DOMAIN rest : rest[i] \notin {"\n", "\r"}
        i == DecimalValue(digits) - 1
        newUrl == Trim(rest)
    IN IF matches /\ i >= 0 /\ i < Len(urls) /\ StartsWith(newUrl, <<"h","t","t","p">>)
       THEN [urls EXCEPT ![i + 1] = newUrl]
       ELSE urls

InitRun ==
    /\ command \in Commands
    /\ token \in TokenValues
    /\ runPc = "start"
    /\ finalUrls = <<>>
    /\ debugFile = NoDebugFile
    /\ runError = NoError
    /\ saveConfirmation = NoAnswer
    /\ removeIndexes = <<>>
    /\ edit = <<>>
    /\ MatcherIdle
    /\ CleanIdle
    /\ CapacityIdle
    /\ HistoryIdle
    /\ ImportIdle
    /\ ExtractIdle

\* main dispatches on the command; a command function constructs the client
\* first, outside its try block
StartCommand ==
    /\ runPc = "start"
    /\ IF command \notin {"analyze-reading", "recommend"}
       THEN runPc' = "done" /\ UNCHANGED <<runError, fetchWindow>>
       ELSE IF ~TokenAccepted(token)
       THEN runPc' = "rejected" /\ runError' = TokenRequired /\ UNCHANGED fetchWindow
       ELSE IF command = "recommend"
       THEN runPc' = "feed" /\ UNCHANGED <<runError, fetchWindow>>
       ELSE /\ runPc' = "history"
            /\ fetchWindow' = [amount |-> 6, unit |-> "months"]
            /\ UNCHANGED runError
    /\ UNCHANGED <<extractVars, saveConfirmation, removeIndexes, edit, command, token,
                   finalUrls, debugFile, wellReadCount, analysis, matcherVars,
                   cleanVars, historyVars, importVars>>

\* one iteration of the feed loop of recommendArticles, answered with a page
FeedPage ==
    /\ runPc = "feed"
    /\ Len(listCalls) < MaxPages
    /\ \E results \in FeedPagePool, cursor \in RunCursors :
          /\ listCalls' = Append(listCalls, ListQuery("feed", nextPageCursor))
          /\ listAnswers' = Append(listAnswers, PageAnswer(results, cursor))
          /\ tldrArticles' = tldrArticles \o PageArticles(results)
          /\ nextPageCursor' = cursor
          /\ IF Truthy(cursor)
             THEN runPc' = "feed" /\ UNCHANGED fetchWindow
             ELSE runPc' = "history" /\ fetchWindow' = [amount |-> 6, unit |-> "weeks"]
    /\ UNCHANGED <<extractVars, saveConfirmation, removeIndexes, edit, command, token,
                   finalUrls, debugFile, runError, allDocuments, fetchResult,
                   aiResponse, mode, outcome, wordCount, wellReadCount, analysis,
                   cleanVars, importVars>>

\* a list call of the feed loop fails: the catch block logs the error
FeedPageFails ==
    /\ runPc = "feed"
    /\ Len(listCalls) < MaxPages
    /\ \E err \in ListErrors :
          /\ listCalls' = Append(listCalls, ListQuery("feed", nextPageCursor))
          /\ listAnswers' = Append(listAnswers, FailureAnswer(err))
          /\ runError' = err
    /\ runPc' = "done"
    /\ UNCHANGED <<extractVars, saveConfirmation, removeIndexes, edit, command, token,
                   finalUrls, debugFile, allDocuments, nextPageCursor, fetchResult,
                   matcherVars, cleanVars, capacityVars, importVars>>

\* one iteration of the loop of getWellReadDocuments; when it returns, the
\* recommend run computes the estimate and saves the prompt
HistoryPage ==
    /\ runPc = "history"
    /\ HistoryFetching
    /\ \E results \in RunPagePool, cursor \in RunCursors :
          /\ ListPageAnswered(results, cursor)
          /\ IF Truthy(cursor)
             THEN UNCHANGED <<runPc, wellReadCount, analysis>>
             ELSE /\ wellReadCount' = Len(fetchResult'.docs)
                  /\ IF command = "recommend"
                     THEN /\ analysis' = readingAnalysis(Len(fetchResult'.docs))
                          /\ runPc' = "reading"
                     ELSE /\ analysis' = analysis
                          /\ runPc' = "done"
    /\ UNCHANGED <<extractVars, saveConfirmation, removeIndexes, edit, command, token,
                   finalUrls, debugFile, runError, fetchWindow, matcherVars, cleanVars,
                   importVars>>

\* a list call of getWellReadDocuments fails: the catch block of the command
\* logs the error
HistoryPageFails ==
    /\ runPc = "history"
    /\ HistoryFetching
    /\ \E err \in ListErrors : ListPageFailed(err) /\ runError' = err
    /\ runPc' = "done"
    /\ UNCHANGED <<extractVars, saveConfirmation, removeIndexes, edit, command, token,
                   finalUrls, debugFile, matcherVars, cleanVars, capacityVars,
                   importVars>>

\* for await (const line of rl) aiResponse += line + "\n"
ReadLine ==
    /\ runPc = "reading"
    /\ LineCount(aiResponse) < MaxLines
    /\ \E line \in LinePool : aiResponse' = aiResponse \o line \o <<"\n">>
    /\ UNCHANGED <<tldrArticles, mode, outcome, wordCount, cleanVars, capacityVars,
                   serviceVars>>

\* the input ends: the response is matched; a failure of the matcher is
\* logged by the catch block, an empty list saves the response and returns
EndOfInput ==
    /\ runPc = "reading"
    /\ \E m \in {"quoted", "line"} :
          /\ mode' = m
          /\ outcome' = IF m = "quoted" THEN MatchQuoted(aiResponse, tldrArticles)
                         ELSE MatchLine(aiResponse, tldrArticles)
    /\ IF outcome'.kind = "throw"
       THEN runPc' = "done" /\ runError' = FailedToMatch /\ UNCHANGED debugFile
       ELSE IF Len(outcome'.urls) = 0
       THEN /\ debugFile' = [written |-> TRUE, content |-> aiResponse]
            /\ runPc' = "done"
            /\ UNCHANGED runError
       ELSE runPc' = "askEdit" /\ UNCHANGED <<runError, debugFile>>
    /\ UNCHANGED <<extractVars, saveConfirmation, removeIndexes, edit, command, token,
                   finalUrls, aiResponse, tldrArticles, wordCount, cleanVars,
                   capacityVars, historyVars, importVars>>

\* "Do you want to edit the URL list before saving?"
AnswerEdit ==
    /\ runPc = "askEdit"
    /\ finalUrls' = outcome.urls
    /\ \E answer \in Confirmations : runPc' = IF IsYes(answer) THEN "remove" ELSE "askSave"
    /\ UNCHANGED <<extractVars, saveConfirmation, removeIndexes, edit, command, token,
                   debugFile, runError, matcherVars, cleanVars, capacityVars,
                   historyVars, importVars>>

\* the numbers of the URLs to remove
AnswerRemove ==
    /\ runPc = "remove"
    /\ \E answer \in RemovalAnswers :
          /\ removeIndexes' = answer
          /\ finalUrls' = IF Trim(answer) # <<>> THEN RemoveIndexes(outcome.urls, answer)
                          ELSE finalUrls
    /\ runPc' = "edit"
    /\ UNCHANGED <<extractVars, saveConfirmation, edit, command, token, debugFile,
                   runError, matcherVars, cleanVars, capacityVars, historyVars,
                   importVars>>

\* one line of the modification loop; an empty line ends it
AnswerModify ==
    /\ runPc = "edit"
    /\ \E line \in EditAnswers :
          /\ edit' = line
          /\ IF Trim(line) = <<>>
             THEN runPc' = "askSave" /\ UNCHANGED finalUrls
             ELSE runPc' = "edit" /\ finalUrls' = ApplyEdit(finalUrls, line)
    /\ UNCHANGED <<extractVars, saveConfirmation, removeIndexes, command, token,
                   debugFile, runError, matcherVars, cleanVars, capacityVars,
                   historyVars, importVars>>

\* "Do you want to save these URLs to Readwise Reader?": on y or yes the
\* importer is called with the final list and a delay of 1500 ms
AnswerSave ==
    /\ runPc = "askSave"
    /\ \E answer \in Confirmations :
          /\ saveConfirmation' = [asked |-> TRUE, answer |-> answer]
          /\ IF IsYes(answer)
             THEN /\ StartImport(finalUrls, [given |-> TRUE, ms |-> 1500])
                  /\ runPc' = IF finalUrls = <<>> THEN "done" ELSE "import"
             ELSE runPc' = "done" /\ UNCHANGED importVars
    /\ UNCHANGED <<extractVars, removeIndexes, edit, command, token, finalUrls,
                   debugFile, runError, matcherVars, cleanVars, capacityVars,
                   historyVars>>

RunCreateSucceeds ==
    /\ runPc = "import"
    /\ importPc = "awaiting"
    /\ ImportAnswered(TRUE)
    /\ runPc' = IF importPc' = "done" THEN "done" ELSE "import"
    /\ UNCHANGED <<extractVars, saveConfirmation, removeIndexes, edit, command, token,
                   finalUrls, debugFile, runError, matcherVars, cleanVars, capacityVars,
                   historyVars>>

RunCreateFails ==
    /\ runPc = "import"
    /\ importPc = "awaiting"
    /\ ImportAnswered(FALSE)
    /\ runPc' = IF importPc' = "done" THEN "done" ELSE "import"
    /\ UNCHANGED <<extractVars, saveConfirmation, removeIndexes, edit, command, token,
                   finalUrls, debugFile, runError, matcherVars, cleanVars, capacityVars,
                   historyVars>>

RunDelayElapses ==
    /\ runPc = "import"
    /\ importPc = "delay"
    /\ ImportDelayElapsed
    /\ runPc' = IF importPc' = "done" THEN "done" ELSE "import"
    /\ UNCHANGED <<extractVars, saveConfirmation, removeIndexes, edit, command, token,
                   finalUrls, debugFile, runError, matcherVars, cleanVars, capacityVars,
                   historyVars>>

NextRun ==
    \/ StartCommand
    \/ FeedPage
    \/ FeedPageFails
    \/ HistoryPage
    \/ HistoryPageFails
    \/ ReadLine
    \/ EndOfInput
    \/ AnswerEdit
    \/ AnswerRemove
    \/ AnswerModify
    \/ AnswerSave
    \/ RunCreateSucceeds
    \/ RunCreateFails
    \/ RunDelayElapses

SpecRun == InitRun /\ [][NextRun]_vars

----------------------------------------------------------------------------
(* Properties of a run *)

\* the two commands that construct the client
ClientCommand == command \in {"analyze-reading", "recommend"}

\* the credential is undefined or empty
MissingCredential == token = Undefined \/ token = ""

\* C19: with an undefined or empty token, a run of analyze-reading or of
\* recommend ends in the constructor's error "API token is required"; no
\* list call and no creation request is ever issued in it.
C19_MissingCredentialAborts ==
    (ClientCommand /\ MissingCredential) =>
        /\ listCalls = <<>>
        /\ createRequests = <<>>
        /\ runPc \in {"start", "rejected"}
        /\ runPc = "rejected" => runError = TokenRequired

C19_Witness ==
    /\ command = "recommend"
    /\ token = ""
    /\ runPc = "rejected"
    /\ runError = TokenRequired

\* the titles the matcher of the run extracted from the response
ExtractedTitles ==
    IF mode = "quoted" THEN ExtractQuoted(aiResponse) ELSE ExtractLines(aiResponse)

\* the matcher of the run resolves the title to a candidate
ResolvedByRun(title) ==
    IF mode = "quoted" THEN ResolveQuoted(TitleToUrlMap(tldrArticles), title) # Null
    ELSE ResolveLine(TitleToUrlMap(tldrArticles), title) # Null

\* the run has matched the response and none of the titles in it was
\* resolved: none was extracted, or every extracted one failed to match
ZeroMatch ==
    /\ mode \in {"quoted", "line"}
    /\ \A i \in DOMAIN ExtractedTitles : ~ResolvedByRun(ExtractedTitles[i])

\* C20: a recommend run that has ended with no title of the response
\* resolved, none extracted or every extracted one unmatched, has written a
\* debug file that holds the response as it was pasted.
C20_ZeroMatchSavesResponse ==
    (command = "recommend" /\ runPc = "done" /\ ZeroMatch) =>
        debugFile = [written |-> TRUE, content |-> aiResponse]

----------------------------------------------------------------------------
(* The Candidate Extractor: parseTLDRLinks.  The document is given by its   *)
(* p elements in document order, as doc.querySelectorAll("p") lists them;   *)
(* of a p element the model keeps what the code reads: its first a element  *)
(* with the href attribute and the first strong element in it, and its      *)
(* text.                                                                    *)

MaxParas == 3        \* p elements of a document

\* a p element: hasLink, querySelector("a") finds an element; hasHref and
\* href, its href attribute; hasStrong and strongText, the strong element in
\* it; text, the textContent of the paragraph
Para(hasLink, hasHref, href, hasStrong, strongText, text) ==
    [hasLink |-> hasLink, hasHref |-> hasHref, href |-> href,
     hasStrong |-> hasStrong, strongText |-> strongText, text |-> text]

ParaPool ==
    { Para(TRUE, TRUE, CandUrl(1), TRUE, <<" ", "a">>, <<" ", "a">>),
      Para(TRUE, FALSE, <<>>, TRUE, <<"b">>, <<"b">>),
      Para(TRUE, TRUE, <<>>, TRUE, <<"c">>, <<"c">>),
      Para(TRUE, TRUE, CandUrl(2), FALSE, <<>>, <<"d">>),
      Para(FALSE, FALSE, <<>>, FALSE, <<>>, <<"s", " ">>) }

\* linkElement.getAttribute("href") || ""
HrefOrEmpty(p) == IF p.hasHref /\ p.href # <<>> THEN p.href ELSE <<>>

\* the loop of parseTLDRLinks from the paragraph at position i (1-based):
\* a paragraph whose link holds a strong element, followed by a paragraph
\* that holds no link, yields an article and skips the follower
RECURSIVE LinksFrom(_, _)
LinksFrom(ps, i) ==
    IF i > Len(ps) THEN <<>>
    ELSE IF ps[i].hasLink /\ ps[i].hasStrong
              /\ i + 1 <= Len(ps) /\ ~ps[i + 1].hasLink
         THEN <<[url |-> HrefOrEmpty(ps[i]),
                 title |-> Trim(ps[i].strongText),
                 summary |-> Trim(ps[i + 1].text)]>> \o LinksFrom(ps, i + 2)
         ELSE LinksFrom(ps, i + 1)

parseTLDRLinks(ps) == LinksFrom(ps, 1)

InitExtract ==
    /\ paragraphs = <<>>
    /\ links = NoLinks
    /\ MatcherIdle
    /\ CleanIdle
    /\ CapacityIdle
    /\ HistoryIdle
    /\ ImportIdle
    /\ RunIdle

\* one more p element of the document
AddParagraph ==
    /\ ~links.done
    /\ Len(paragraphs) < MaxParas
    /\ \E p \in ParaPool : paragraphs' = Append(paragraphs, p)
    /\ UNCHANGED <<links, matcherVars, cleanVars, capacityVars, historyVars, importVars,
                   runVars>>

RunParse ==
    /\ ~links.done
    /\ links' = [done |-> TRUE, articles |-> parseTLDRLinks(paragraphs)]
    /\ UNCHANGED <<paragraphs, matcherVars, cleanVars, capacityVars, historyVars,
                   importVars, runVars>>

NextExtract == AddParagraph \/ RunParse

SpecExtract == InitExtract /\ [][NextExtract]_vars

----------------------------------------------------------------------------
(* Properties of the Candidate Extractor *)

\* C21: every article parseTLDRLinks returns has a non-empty url, whatever
\* the markup, a title link with a missing or an empty href included.
C21_UrlNonEmpty ==
    links.done => \A i \in DOMAIN links.articles : links.articles[i].url # <<>>

----------------------------------------------------------------------------
(* Further properties of the History Fetcher and of the Batch Importer *)

\* every answer so far was a page with a continuation cursor
EveryAnswerContinues ==
    \A i \in DOMAIN listAnswers : listAnswers[i].ok /\ Truthy(listAnswers[i].nextPageCursor)

\* C22: a cap on the pages stops the pagination loop: once MaxPages list
\* calls were answered, each with a continuation cursor (the same one
\* echoed, for one), getWellReadDocuments has returned or raised.
C22_LoopEndsWithinCap ==
    (Len(listCalls) >= MaxPages /\ EveryAnswerContinues) => fetchResult.kind # "none"

\* the creation requests issued and not yet answered
InFlight == Len(createRequests) - EventCount(importTrace, "attempt")

\* C23: the importer issues its creation requests one at a time and in input
\* order: the i-th request is that of the i-th URL, a request is in flight
\* exactly while the importer awaits its answer and never more than one is,
\* no URL is requested twice, and at the return every URL was requested
\* once.
C23_SequentialOnceEach ==
    /\ InFlight \in {0, 1}
    /\ InFlight = 1 <=> importPc = "awaiting"
    /\ Len(createRequests) <= Len(recommendedUrls)
    /\ \A i \in DOMAIN createRequests : createRequests[i].url = recommendedUrls[i]
    /\ \A i \in DOMAIN importTrace :
          importTrace[i].kind = "attempt" =>
              importTrace[i].index + 1 = EventCount(SubSeq(importTrace, 1, i), "attempt")
    /\ ImportReturned => Len(createRequests) = Len(recommendedUrls)

C23_Witness ==
    /\ importPc = "awaiting"
    /\ Len(createRequests) = 3
    /\ EventCount(importTrace, "attempt") = 2
    /\ failCount = 2
    /\ recommendedUrls[1] = recommendedUrls[2]

----------------------------------------------------------------------------
(* Further properties of the Response Matcher *)

\* no candidate title equals the title, exactly or up to letter case
UnknownUpToCase(title) ==
    \A k \in DOMAIN tldrArticles : ToLower(tldrArticles[k].title) # ToLower(title)

\* the title differs from a candidate title by characters that are no word
\* characters (punctuation, inner white space) and by nothing else
KnownAfterNormalizing(title) ==
    \E k \in DOMAIN tldrArticles : Normalize(tldrArticles[k].title) = Normalize(title)

\* C24: in line mode a line resolves by exact or case-insensitive equality
\* only: a returned URL is that of a candidate whose title equals the line up
\* to letter case, and a line that equals no candidate title up to case,
\* even one that differs from a title by punctuation or inner white space
\* only, makes the matcher raise and is listed as unmatched.
C24_LineModeSkipsNormalized ==
    mode = "line" =>
        /\ outcome.kind = "return" =>
              \A i \in DOMAIN Extracted : \E k \in DOMAIN tldrArticles :
                  /\ ToLower(tldrArticles[k].title) = ToLower(Extracted[i])
                  /\ outcome.urls[i] = tldrArticles[k].url
        /\ \A i \in DOMAIN Extracted :
              UnknownUpToCase(Extracted[i]) =>
                  /\ outcome.kind = "throw"
                  /\ \E j \in DOMAIN outcome.unmatched : outcome.unmatched[j] = Extracted[i]

\* a line-mode run that raised on a line the normalized tier would accept
C24_Witness ==
    /\ mode = "line"
    /\ outcome.kind = "throw"
    /\ \E i \in DOMAIN Extracted :
          /\ UnknownUpToCase(Extracted[i])
          /\ KnownAfterNormalizing(Extracted[i])
          /\ \E j \in DOMAIN outcome.unmatched : outcome.unmatched[j] = Extracted[i]

\* the host of the URL is one of the link-shortener domains
ShortenerHost(url) ==
    /\ ParseURL(url).ok
    /\ \E d \in DOMAIN shortenerDomains : ParseURL(url).host = shortenerDomains[d]

\* the URLs the url mode found in the response, before cleanup
FoundUrls ==
    LET matches == UrlMatchesFrom(aiResponse, 1)
    IN [i \in DOMAIN matches |-> MarkdownInner(StripTrailing(matches[i]))]

\* C25: a URL whose host is a link-shortener domain is not rejected: cleanup
\* returns it, and the list the url mode returns holds it; since it carries
\* no tracking parameter here, it is returned as it was written.
C25_ShortenerKept ==
    mode = "url" =>
        \A i \in DOMAIN FoundUrls :
            ShortenerHost(FoundUrls[i]) =>
                /\ cleanAndValidateURL(FoundUrls[i]) = FoundUrls[i]
                /\ \E j \in DOMAIN outcome.urls : outcome.urls[j] = FoundUrls[i]

C25_Witness ==
    /\ mode = "url"
    /\ Len(FoundUrls) = 2
    /\ ~ShortenerHost(FoundUrls[1])
    /\ ShortenerHost(FoundUrls[2])
    /\ IsShortener(FoundUrls[2])
    /\ outcome.urls = <<cleanAndValidateURL(FoundUrls[1]), FoundUrls[2]>>

----------------------------------------------------------------------------
(* Further properties of a run *)

\* the user answered y or yes, in any letter case, to the save question
SaveConfirmed ==
    /\ saveConfirmation.asked
    /\ ToLower(saveConfirmation.answer) \in { <<"y">>, <<"y", "e", "s">> }

\* the importer was called in this run
ImporterInvoked == importPc # "idle"

\* the matcher returned a non-empty list, no call failed and the user agreed
MatchedAndConfirmed ==
    /\ command = "recommend"
    /\ outcome.kind = "return"
    /\ outcome.urls # <<>>
    /\ SaveConfirmed
    /\ runError = NoError

\* the matcher raised or returned nothing, a list call failed, or the user
\* declined
MatchFailedOrDeclined ==
    \/ outcome.kind = "throw"
    \/ mode # "none" /\ outcome.urls = <<>>
    \/ runError \in ListErrors
    \/ saveConfirmation.asked /\ ~SaveConfirmed

\* C26: in a recommend run a creation request is issued, and the importer is
\* called, only after the matcher returned a non-empty list and the user
\* answered y or yes to the save question; a run in which the matcher raised
\* or returned nothing, a list call failed or the user declined ends with no
\* creation request; once the importer is called no list call follows and
\* the importer is not called again.
C26_CreationNeedsMatchAndConsent ==
    /\ []((createRequests # <<>> \/ ImporterInvoked) => MatchedAndConfirmed)
    /\ [](MatchFailedOrDeclined => (createRequests = <<>> /\ runPc = "done"))
    /\ [](Len(createRequests) <= Len(finalUrls))
    /\ [][ImporterInvoked =>
            /\ listCalls' = listCalls
            /\ recommendedUrls' = recommendedUrls
            /\ importPc' # "idle"
            /\ Len(importTrace') >= Len(importTrace)]_vars

\* a run that imported after a failed creation: two list calls, a confirmed
\* save, and the second of two creation requests answered
C26_Witness ==
    /\ runPc = "done"
    /\ SaveConfirmed
    /\ saveConfirmation.answer = <<"Y", "e", "s">>
    /\ Len(listCalls) >= 2
    /\ Len(createRequests) = 2
    /\ failCount = 1

\* the comma-separated entries of the removal answer, trimmed
RemovalTokens(answer) ==
    LET parts == Split(answer, ",") IN [i \in DOMAIN parts |-> Trim(parts[i])]

\* the token is a decimal numeral
IsNumeral(t) == t # <<>> /\ \A i \in DOMAIN t : t[i] \in Digits

\* the 1-based indices within 1..n that the answer names by a numeral
IndexesNamed(answer, n) ==
    {k \in 1..n : \E i \in DOMAIN RemovalTokens(answer) :
        /\ IsNumeral(RemovalTokens(answer)[i])
        /\ DecimalValue(RemovalTokens(answer)[i]) = k}

\* the 1-based indices within 1..n that the answer names by an entry that
\* begins with a numeral, after an optional sign
IndexesRead(answer, n) ==
    {k \in 1..n : \E i \in DOMAIN RemovalTokens(answer) :
        LET t == RemovalTokens(answer)[i]
            body == IF t # <<>> /\ t[1] = "+" THEN Tail(t) ELSE t
        IN /\ LeadingDigits(body) # <<>>
           /\ DecimalValue(LeadingDigits(body)) = k}

\* the list without the entries at the given 1-based indices
WithoutIndexes(urls, removed) ==
    LET kept == SelectSeq([k \in DOMAIN urls |-> k], LAMBDA k : k \notin removed)
    IN [j \in DOMAIN kept |-> urls[kept[j]]]

\* the line is i:newURL with 1 <= i <= n and newURL, trimmed, beginning
\* with http
ValidReplacement(line, n) ==
    \E c \in DOMAIN line :
        /\ c > 1
        /\ c < Len(line)
        /\ line[c] = ":"
        /\ IsNumeral(SubSeq(line, 1, c - 1))
        /\ DecimalValue(SubSeq(line, 1, c - 1)) \in 1..n
        /\ StartsWith(Trim(SubSeq(line, c + 1, Len(line))), <<"h", "t", "t", "p">>)

\* the list after the replacement the line asks for, if it is valid
Replaced(urls, line) ==
    IF ValidReplacement(line, Len(urls))
    THEN LET c == CHOOSE x \in DOMAIN line : line[x] = ":" /\ IsNumeral(SubSeq(line, 1, x - 1))
         IN [urls EXCEPT ![DecimalValue(SubSeq(line, 1, c - 1))] =
                             Trim(SubSeq(line, c + 1, Len(line)))]
    ELSE urls

\* C27 as stated: the removal deletes exactly the entries of the matched
\* list whose 1-based index the answer names, ignores every entry of the
\* answer that is no number or is out of range, and keeps the order of the
\* rest; a valid replacement overwrites entry i only, an invalid one changes
\* nothing.
C27_ReviewEdits ==
    [][/\ runPc = "remove" =>
              finalUrls' = WithoutIndexes(outcome.urls,
                                          IndexesNamed(removeIndexes', Len(outcome.urls)))
       /\ runPc = "edit" => finalUrls' = Replaced(finalUrls, edit')]_vars

\* C27, amended: an entry of the removal answer counts as the number it
\* begins with (1x is read as 1); entries that begin with no number or whose
\* number is out of range are ignored.  The rest is as stated.
C27_ReviewEditsParsed ==
    [][/\ runPc = "remove" =>
              finalUrls' = WithoutIndexes(outcome.urls,
                                          IndexesRead(removeIndexes', Len(outcome.urls)))
       /\ runPc = "edit" => finalUrls' = Replaced(finalUrls, edit')]_vars

\* the second of two different URLs was removed by an answer that also holds
\* an entry that is no number, and the first was then replaced
C27_Witness ==
    /\ runPc = "edit"
    /\ Len(outcome.urls) = 2
    /\ outcome.urls[1] # outcome.urls[2]
    /\ removeIndexes = <<"2", ",", " ", "x">>
    /\ edit = <<"1", ":">> \o ReplacementUrl
    /\ finalUrls = <<ReplacementUrl>>

----------------------------------------------------------------------------
(* The title modes on candidates whose titles differ in letter case or in   *)
(* white space only, and on responses that name a title several times       *)

TierTitlePool ==
    { <<"a", "b">>, <<"A", "B">>, <<"a", " ", "b">>, <<"A", " ", "b">> }

TierCandidateLists == {ArticlesOf(ts) : ts \in UNION {[1..n -> TierTitlePool] : n \in 0..MaxCands}}

\* a title on a line of its own, with and without quotes
TierPieces ==
    { <<"\"", "a", "B", "\"", "\n">>,
      <<"\"", "a", "b", "\"", "\n">>,
      <<"a", "B", "\n">>,
      <<"a", "b", "\n">> }

InitTiers ==
    /\ aiResponse = <<>>
    /\ tldrArticles \in TierCandidateLists
    /\ mode = "none"
    /\ outcome = NoOutcome
    /\ wordCount = 0
    /\ CleanIdle
    /\ CapacityIdle
    /\ ServiceIdle

AppendTitle ==
    /\ mode = "none"
    /\ wordCount < MaxPieces
    /\ \E w \in TierPieces : aiResponse' = aiResponse \o w
    /\ wordCount' = wordCount + 1
    /\ UNCHANGED <<tldrArticles, mode, outcome, cleanVars, capacityVars, serviceVars>>

NextTiers == AppendTitle \/ RunMatchQuoted \/ RunMatchLine

SpecTiers == InitTiers /\ [][NextTiers]_vars

----------------------------------------------------------------------------
(* Properties of the tiers of title resolution *)

\* the candidates whose title a tier accepts for the title
ExactSet(title) == {k \in DOMAIN tldrArticles : tldrArticles[k].title = title}
CaseSet(title) == {k \in DOMAIN tldrArticles : ToLower(tldrArticles[k].title) = ToLower(title)}
NormSet(title) ==
    {k \in DOMAIN tldrArticles : Normalize(tldrArticles[k].title) = Normalize(title)}

Earliest(S) == CHOOSE k \in S : \A j \in S : k <= j
Latest(S) == CHOOSE k \in S : \A j \in S : j <= k

\* the last candidate that bears the title of candidate k
LastWithTitleOf(k) == Latest(ExactSet(tldrArticles[k].title))

\* C28 as stated: a title that equals a candidate's title exactly resolves
\* to that candidate, whatever the other tiers accept; else a candidate that
\* matches up to letter case wins over one that matches after normalization
\* only; within a scanning tier the earliest matching candidate is chosen.
C28_TierPrecedence ==
    (TitleMode /\ outcome.kind = "return") =>
        \A i \in DOMAIN Extracted :
            LET t == Extracted[i]
            IN /\ \A k \in ExactSet(t) : outcome.urls[i] = tldrArticles[k].url
               /\ (ExactSet(t) = {} /\ CaseSet(t) # {}) =>
                     outcome.urls[i] = tldrArticles[Earliest(CaseSet(t))].url
               /\ (mode = "quoted" /\ CaseSet(t) = {} /\ NormSet(t) # {}) =>
                     outcome.urls[i] = tldrArticles[Earliest(NormSet(t))].url

\* C28, amended: the candidate a tier chooses stands for its title, and the
\* URL returned is that of the last candidate that bears this title: an
\* exact match returns the URL of the last candidate with that very title;
\* else the earliest candidate that matches up to letter case, else (quoted
\* mode) the earliest that matches after normalization, decides the title.
C28_TierPrecedenceOnTitles ==
    (TitleMode /\ outcome.kind = "return") =>
        \A i \in DOMAIN Extracted :
            LET t == Extracted[i]
            IN /\ ExactSet(t) # {} =>
                     outcome.urls[i] = tldrArticles[Latest(ExactSet(t))].url
               /\ (ExactSet(t) = {} /\ CaseSet(t) # {}) =>
                     outcome.urls[i] = tldrArticles[LastWithTitleOf(Earliest(CaseSet(t)))].url
               /\ (mode = "quoted" /\ CaseSet(t) = {} /\ NormSet(t) # {}) =>
                     outcome.urls[i] = tldrArticles[LastWithTitleOf(Earliest(NormSet(t)))].url

\* a quoted-mode run in which a later candidate that matches up to case won
\* over an earlier one that matches after normalization only
C28_Witness ==
    /\ mode = "quoted"
    /\ outcome.kind = "return"
    /\ \E i \in DOMAIN Extracted :
          LET t == Extracted[i]
          IN /\ ExactSet(t) = {}
             /\ CaseSet(t) # {}
             /\ Earliest(NormSet(t)) < Earliest(CaseSet(t))
             /\ outcome.urls[i] = tldrArticles[Earliest(CaseSet(t))].url

----------------------------------------------------------------------------
(* Repeated titles, from the response to the creation requests *)

\* how often x occurs in the sequence
Occurrences(seq, x) == Cardinality({i \in DOMAIN seq : seq[i] = x})

RequestedUrls == [i \in DOMAIN createRequests |-> createRequests[i].url]

\* the matched list went to the importer as the matcher returned it, and the
\* importer has returned
ImportedUnchanged ==
    /\ TitleMode
    /\ outcome.kind = "return"
    /\ SaveConfirmed
    /\ finalUrls = outcome.urls
    /\ ImportReturned

\* C29: the title modes do not deduplicate. The list returned has one entry
\* per extracted identifier, the i-th being what the i-th identifier resolves
\* to, so a title that occurs k times yields k copies of one URL; and when
\* the list is imported unchanged the importer issues one creation request
\* per entry, hence at least k for that URL.
C29_TitleModesKeepRepeats ==
    /\ (TitleMode /\ outcome.kind = "return") =>
          /\ Len(outcome.urls) = Len(Extracted)
          /\ \A i \in DOMAIN Extracted :
                /\ outcome.urls[i] = Resolution(Extracted[i])
                /\ Occurrences(outcome.urls, outcome.urls[i])
                      >= Occurrences(Extracted, Extracted[i])
    /\ ImportedUnchanged =>
          /\ Len(createRequests) = Len(Extracted)
          /\ \A i \in DOMAIN Extracted :
                Occurrences(RequestedUrls, Resolution(Extracted[i]))
                    = Occurrences(outcome.urls, Resolution(Extracted[i]))

\* a response that names one title twice, imported unchanged: two creation
\* requests for the same URL
C29_Witness ==
    /\ ImportedUnchanged
    /\ Len(Extracted) = 2
    /\ Extracted[1] = Extracted[2]
    /\ Len(createRequests) = 2
    /\ createRequests[1].url = createRequests[2].url

----------------------------------------------------------------------------
(* Candidates that share a title *)

\* candidate k bears the title of a later candidate with another URL
Shadowed(k) ==
    \E j \in DOMAIN tldrArticles :
        /\ k < j
        /\ tldrArticles[j].title = tldrArticles[k].title
        /\ tldrArticles[j].url # tldrArticles[k].url

====
